---------------------------- MODULE Spec2Model ----------------------------
(***************************************************************************)
(* SocSim-Lab backend: the simulation-state store, the intervention        *)
(* command interpreter (_execute_intervention), the background ticker and  *)
(* the REST handlers that read-modify-write the simulation state.          *)
(*                                                                         *)
(* Numbers that are Python floats in the source (mood, stance, resources,  *)
(* speed) are fixed-point integers in units of 1/Scale.                    *)
(* A command string is a sequence of tokens (whitespace is the separator). *)
(***************************************************************************)
EXTENDS Integers, Sequences, FiniteSets, TLC

VARIABLES
    db,         \* the simulation_state row (id = 1) of the SQLite store
    mem,        \* the module-level global _sim_state
    useOasis,   \* settings.use_oasis and OASIS_AVAILABLE
    oasis,      \* the OasisSimulation singleton: [env, tick]
    tpc,        \* position of the simulation_ticker coroutine
    result,     \* the ticker's local `result` of run_simulation_step()
    resp,       \* what the last handler call returned (or raised)
    steps,      \* number of ticker steps started so far
    ws,         \* websocket/manager.py: the WebSocketManager singleton
    hpc,        \* position and locals of a create_intervention call in progress
    net,        \* the outcomes of the sends of the latest broadcast
    tables,     \* the other tables of the store (records, events, snapshots, posts)
    rate        \* OasisSimulation._action_timestamps and the clock

vars == <<db, mem, useOasis, oasis, tpc, result, resp, steps, ws, hpc, net, tables, rate>>

(* the state outside the simulation-state store, the ticker and the REST    *)
(* handlers of the first part                                               *)
ext == <<ws, hpc, net, tables, rate>>

-----------------------------------------------------------------------------
(* Bounds of the model                                                      *)

MaxSteps == 1
MaxCalls == 2
MaxNotifying == 1
MaxPosts == 2
MaxLogLines == 3
MaxRecorded == 4
MaxNow == 62
LlmActiveAgents == 2
LlmMaxActionsPerMinute == 2

(* Program constants                                                        *)

Scale == 1000
MoodMin == -1000
MoodMax == 1000
ResourcesMin == 0
ResourcesMax == 10000000
SpeedMin == 100
SpeedMax == 10000
MaxStrDigits == 4300
NumToUpdate == 5
TrailCap == 500

(* Optional[T]: None is the empty sequence, a value v is <<v>>               *)
None == <<>>
Some(v) == <<v>>

Max2(a, b) == IF a >= b THEN a ELSE b
Min2(a, b) == IF a <= b THEN a ELSE b

-----------------------------------------------------------------------------
(* Agent keys: a dict key is the integer N or the string "N".               *)

IntKey(n) == [ty |-> "int", n |-> n]
StrKey(n) == [ty |-> "str", n |-> n]
NoKey == [ty |-> "none", n |-> 0]

(* the ids of the stored personas                                           *)
AgentIds == {1, 2}

ProfileGroup(id) == IF id <= 2 THEN <<"Group", "A">> ELSE <<"Group", "B">>

Lower(s) ==
    CASE s = "PAUSE" -> "pause"
      [] s = "Stop" -> "stop"
      [] s = "Resume" -> "resume"
      [] s = "SET" -> "set"
      [] s = "Agent" -> "agent"
      [] s = "MOOD" -> "mood"
      [] s = "Mood" -> "mood"
      [] s = "Speed" -> "speed"
      [] s = "Shift" -> "shift"
      [] s = "Group" -> "group"
      [] s = "GROUP" -> "group"
      [] s = "A" -> "a"
      [] s = "B" -> "b"
      [] s = "Survey" -> "survey"
      [] OTHER -> s

LowerSeq(q) == [i \in 1 .. Len(q) |-> Lower(q[i])]

InitialAgentState ==
    [mood |-> 0, stance |-> 0, resources |-> 100 * Scale, lastAction |-> "idle"]

AgentRuntime(id, st) == [profile |-> [id |-> id, group |-> ProfileGroup(id)], state |-> st]

EmptyAgents == [k \in {} |-> AgentRuntime(0, InitialAgentState)]

(* models/types.py SimulationConfig: the dataclass defaults the model reads *)
SimulationConfig == [seed |-> 42, agent_count |-> 30, ticks_per_second |-> 1 * Scale]

(* models/types.py SimulationState: the dataclass defaults                  *)
SimulationState ==
    [config |-> SimulationConfig, tick |-> 0, is_running |-> FALSE, speed |-> 1 * Scale,
     selected_agent_id |-> None, agents |-> EmptyAgents,
     groups |-> {}, logs |-> <<>>, events |-> <<>>, feed |-> <<>>,
     interventions |-> <<>>, snapshots |-> <<>>, current_snapshot_id |-> None]


-----------------------------------------------------------------------------
(* Command tokens.  W: a word, Num: an unsigned run of digits (value v,    *)
(* d characters long), KV: "key=value" with a signed decimal value (in     *)
(* 1/Scale), LB and RB: the brackets of the UI's group prefix, SP: white    *)
(* space at an end of the command (between tokens it is implied).          *)

W(s) == [t |-> "w", s |-> s, v |-> 0, d |-> 0]
Num(v, d) == [t |-> "n", s |-> "", v |-> v, d |-> d]
KV(k, v) == [t |-> "kv", s |-> k, v |-> v, d |-> 0]
LB == [t |-> "lb", s |-> "[", v |-> 0, d |-> 0]
RB == [t |-> "rb", s |-> "]", v |-> 0, d |-> 0]
SP == [t |-> "sp", s |-> " ", v |-> 0, d |-> 0]

IsWord(tok, w) == tok.t = "w" /\ Lower(tok.s) = w
IsKey(tok, k) == tok.t = "kv" /\ Lower(tok.s) = k

From(q, i) == SubSeq(q, i, Len(q))

(* main.py 360-361: drop everything up to and including the first "]"       *)
(* str.strip(): the text without the white space at its two ends           *)
Strip(q) ==
    IF \A i \in 1 .. Len(q) : q[i].t = "sp" THEN <<>>
    ELSE SubSeq(q,
                CHOOSE i \in 1 .. Len(q) : q[i].t # "sp" /\ \A j \in 1 .. (i - 1) : q[j].t = "sp",
                CHOOSE i \in 1 .. Len(q) : q[i].t # "sp" /\ \A j \in (i + 1) .. Len(q) : q[j].t = "sp")

HasPrefix(original) ==
    /\ Len(original) >= 1
    /\ original[1].t = "lb"
    /\ \E i \in 1 .. Len(original) : original[i].t = "rb"

AfterPrefix(original) ==
    From(original, 1 + CHOOSE i \in 1 .. Len(original) :
                           /\ original[i].t = "rb"
                           /\ \A j \in 1 .. (i - 1) : original[j].t # "rb")

StripPrefix(original) == IF HasPrefix(original) THEN Strip(AfterPrefix(original)) ELSE original

(* variant of Normalize that keeps a bracketed prefix                       *)
NormalizeKeepPrefix(command) == Strip(command)

Normalize(command) == StripPrefix(Strip(command))

ClampMood(num) == Max2(MoodMin, Min2(MoodMax, num))
ClampResources(num) == Max2(ResourcesMin, Min2(ResourcesMax, num))
ClampSpeed(speed) == Max2(SpeedMin, Min2(SpeedMax, speed))

AssignKeys == {"mood", "stance", "resources"}

(* variant of ClampAssignment that stores the parsed value as it is         *)
ClampAssignmentNone(key_norm, num) == num

ClampAssignment(key_norm, num) ==
    IF key_norm \in {"mood", "stance"} THEN ClampMood(num) ELSE ClampResources(num)

(* _parse_assignments: re.findall over the fragments; a later fragment of   *)
(* the same key overwrites an earlier one                                   *)
ParseAssignments(raw) ==
    LET found == {k \in AssignKeys : \E i \in 1 .. Len(raw) : IsKey(raw[i], k)}
        last(k) == CHOOSE i \in 1 .. Len(raw) :
                       /\ IsKey(raw[i], k)
                       /\ \A j \in (i + 1) .. Len(raw) : ~IsKey(raw[j], k)
    IN  [k \in found |-> ClampAssignment(k, raw[last(k)].v)]

(* _normalize_agent_id_list: the ids of all keys, one per key               *)
NormalizeAgentIdList(state) == {k.n : k \in DOMAIN state.agents}

KeyCount(state, id) == Cardinality({k \in DOMAIN state.agents : k.n = id})

(* _get_agent_state_ref: the key under which agent_id resolves, integer key *)
(* first, then string key; None when neither is present                     *)
AgentKeyRef(state, agent_id) ==
    IF IntKey(agent_id) \in DOMAIN state.agents THEN IntKey(agent_id)
    ELSE IF StrKey(agent_id) \in DOMAIN state.agents THEN StrKey(agent_id)
    ELSE NoKey

GetAgentGroup(state, agent_id) ==
    IF AgentKeyRef(state, agent_id) = NoKey THEN <<>>
    ELSE state.agents[AgentKeyRef(state, agent_id)].profile.group

(* variant of AgentIdsByGroup that compares the group names as written     *)
AgentIdsByGroupExact(state, group_name) ==
    {id \in NormalizeAgentIdList(state) : GetAgentGroup(state, id) = group_name}

AgentIdsByGroup(state, group_name) ==
    {id \in NormalizeAgentIdList(state) : LowerSeq(GetAgentGroup(state, id)) = LowerSeq(group_name)}

WithAgentState(state, key, st) ==
    [state EXCEPT !.agents = [state.agents EXCEPT ![key] = [@ EXCEPT !.state = st]]]

(* variant of ApplyAgentPatch that adds the patch to the old values         *)
ApplyAgentPatchDelta(state, agent_id, patch) ==
    LET key == AgentKeyRef(state, agent_id) IN
    IF key = NoKey THEN [ok |-> FALSE, state |-> state]
    ELSE LET old == state.agents[key].state
             new == [mood |-> old.mood + (IF "mood" \in DOMAIN patch THEN patch["mood"] ELSE 0),
                     stance |-> old.stance + (IF "stance" \in DOMAIN patch THEN patch["stance"] ELSE 0),
                     resources |-> old.resources
                                     + (IF "resources" \in DOMAIN patch THEN patch["resources"] ELSE 0),
                     lastAction |-> "intervened"]
         IN  [ok |-> TRUE, state |-> WithAgentState(state, key, new)]

(* _apply_agent_patch: [ok, state]                                          *)
ApplyAgentPatch(state, agent_id, patch) ==
    LET key == AgentKeyRef(state, agent_id) IN
    IF key = NoKey THEN [ok |-> FALSE, state |-> state]
    ELSE LET old == state.agents[key].state
             new == [mood |-> IF "mood" \in DOMAIN patch THEN patch["mood"] ELSE old.mood,
                     stance |-> IF "stance" \in DOMAIN patch THEN patch["stance"] ELSE old.stance,
                     resources |-> IF "resources" \in DOMAIN patch THEN patch["resources"] ELSE old.resources,
                     lastAction |-> "intervened"]
         IN  [ok |-> TRUE, state |-> WithAgentState(state, key, new)]


Effect(tag, num, name) == [tag |-> tag, num |-> num, name |-> name]
Tag(tag) == Effect(tag, 0, <<>>)

RECURSIVE SortedSeq(_)
SortedSeq(S) ==
    IF S = {} THEN <<>>
    ELSE LET m == CHOOSE x \in S : \A y \in S : x <= y
         IN  <<m>> \o SortedSeq(S \ {m})

(* main.py 368-382: run control, else the speed pattern (re.search)         *)
SpeedMatchAt(lower, i) ==
    \/ IsKey(lower[i], "speed")
    \/ IsWord(lower[i], "speed") /\ i < Len(lower) /\ lower[i + 1].t = "n"

SpeedMatches(lower) == \E i \in 1 .. Len(lower) : SpeedMatchAt(lower, i)

SpeedValue(lower) ==
    LET i == CHOOSE i \in 1 .. Len(lower) :
                 SpeedMatchAt(lower, i) /\ \A j \in 1 .. (i - 1) : ~SpeedMatchAt(lower, j)
    IN  IF lower[i].t = "kv" THEN lower[i].v ELSE lower[i + 1].v * Scale

IsCommand(lower, words) == Len(lower) = 1 /\ \E w \in words : IsWord(lower[1], w)

(* variant of RunControl whose resume toggles is_running                    *)
RunControlToggle(state, lower) ==
    IF IsCommand(lower, {"pause", "stop"})
    THEN [state |-> [state EXCEPT !.is_running = FALSE], changed |-> TRUE,
          effects |-> <<Tag("simulation_paused")>>, affected |-> {}]
    ELSE IF IsCommand(lower, {"resume", "run", "start"})
    THEN [state |-> [state EXCEPT !.is_running = ~state.is_running], changed |-> TRUE,
          effects |-> <<Tag("simulation_resumed")>>, affected |-> {}]
    ELSE IF SpeedMatches(lower)
    THEN LET speed == ClampSpeed(SpeedValue(lower))
         IN  [state |-> [state EXCEPT !.speed = speed], changed |-> TRUE,
              effects |-> <<Effect("speed_set", speed, <<>>)>>, affected |-> {}]
    ELSE [state |-> state, changed |-> FALSE, effects |-> <<>>, affected |-> {}]

RunControl(state, lower) ==
    IF IsCommand(lower, {"pause", "stop"})
    THEN [state |-> [state EXCEPT !.is_running = FALSE], changed |-> TRUE,
          effects |-> <<Tag("simulation_paused")>>, affected |-> {}]
    ELSE IF IsCommand(lower, {"resume", "run", "start"})
    THEN [state |-> [state EXCEPT !.is_running = TRUE], changed |-> TRUE,
          effects |-> <<Tag("simulation_resumed")>>, affected |-> {}]
    ELSE IF SpeedMatches(lower)
    THEN LET speed == ClampSpeed(SpeedValue(lower))
         IN  [state |-> [state EXCEPT !.speed = speed], changed |-> TRUE,
              effects |-> <<Effect("speed_set", speed, <<>>)>>, affected |-> {}]
    ELSE [state |-> state, changed |-> FALSE, effects |-> <<>>, affected |-> {}]

(* main.py 384: re.match(r"set\s+agent\s+(\d+)\s+(.+)", normalized)         *)
SetAgentMatch(normalized) ==
    /\ Len(normalized) >= 4
    /\ IsWord(normalized[1], "set")
    /\ IsWord(normalized[2], "agent")
    /\ normalized[3].t = "n"

(* main.py 386: int(digits) raises ValueError when the digit run is longer  *)
(* than the interpreter's limit for integer string conversion               *)
IntRaises(tok) == tok.d > MaxStrDigits

(* main.py 401-405: re.search of "shift group <name> mood=<number>"; the    *)
(* name is the shortest non-empty text before the first " mood="            *)
ShiftMatchAt(normalized, i) ==
    /\ i + 3 <= Len(normalized)
    /\ IsWord(normalized[i], "shift")
    /\ IsWord(normalized[i + 1], "group")
    /\ \E j \in (i + 3) .. Len(normalized) : IsKey(normalized[j], "mood")

ShiftMatches(normalized) == \E i \in 1 .. Len(normalized) : ShiftMatchAt(normalized, i)

ShiftStart(normalized) ==
    CHOOSE i \in 1 .. Len(normalized) :
        ShiftMatchAt(normalized, i) /\ \A j \in 1 .. (i - 1) : ~ShiftMatchAt(normalized, j)

ShiftMoodPos(normalized) ==
    LET i == ShiftStart(normalized) IN
    CHOOSE j \in (i + 3) .. Len(normalized) :
        IsKey(normalized[j], "mood") /\ \A h \in (i + 3) .. (j - 1) : ~IsKey(normalized[h], "mood")

TokText(tok) == IF tok.t = "w" THEN tok.s ELSE IF tok.t = "kv" THEN "<kv>" ELSE "<sym>"

ShiftGroupName(normalized) ==
    LET i == ShiftStart(normalized)
        j == ShiftMoodPos(normalized)
    IN  [h \in 1 .. (j - i - 2) |-> TokText(normalized[i + 1 + h])]

ShiftDelta(normalized) == normalized[ShiftMoodPos(normalized)].v

(* variant of ShiftOne that applies the delta twice                         *)
ShiftOneTwice(state, agent_id, delta) ==
    LET key == AgentKeyRef(state, agent_id) IN
    IF key = NoKey THEN state
    ELSE LET old == state.agents[key].state
         IN  WithAgentState(state, key,
                 [old EXCEPT !.mood = ClampMood(ClampMood(old.mood + delta) + delta),
                             !.lastAction = "intervened_group_shift"])

(* main.py 410-417: one pass of the loop body for agent_id                  *)
ShiftOne(state, agent_id, delta) ==
    LET key == AgentKeyRef(state, agent_id) IN
    IF key = NoKey THEN state
    ELSE LET old == state.agents[key].state
         IN  WithAgentState(state, key,
                 [old EXCEPT !.mood = ClampMood(old.mood + delta),
                             !.lastAction = "intervened_group_shift"])

RECURSIVE ShiftTimes(_, _, _, _)
ShiftTimes(state, agent_id, delta, n) ==
    IF n = 0 THEN state
    ELSE ShiftTimes(ShiftOne(state, agent_id, delta), agent_id, delta, n - 1)

(* the loop over target_ids: an id is listed once per key that yields it    *)
RECURSIVE ShiftAll(_, _, _, _)
ShiftAll(state, ids, delta, mult) ==
    IF ids = {} THEN state
    ELSE LET id == CHOOSE x \in ids : TRUE
         IN  ShiftAll(ShiftTimes(state, id, delta, mult[id]), ids \ {id}, delta, mult)

GroupShift(state, normalized) ==
    IF ~ShiftMatches(normalized)
    THEN [state |-> state, changed |-> FALSE, effects |-> <<>>, affected |-> {}]
    ELSE LET group_name == ShiftGroupName(normalized)
             delta == ShiftDelta(normalized)
             target_ids == AgentIdsByGroup(state, group_name)
             mult == [id \in target_ids |-> KeyCount(state, id)]
         IN  [state |-> ShiftAll(state, target_ids, delta, mult),
              changed |-> target_ids # {},
              effects |-> IF target_ids # {}
                          THEN <<Effect("group_mood_shift", 0, group_name)>> ELSE <<>>,
              affected |-> target_ids]

(* main.py 422-427                                                          *)
RecordedOnly(lower) ==
    (IF Len(lower) >= 2 /\ IsWord(lower[1], "inject") /\ IsWord(lower[2], "event")
     THEN <<Tag("event_injected")>> ELSE <<>>)
    \o (IF Len(lower) >= 1 /\ IsWord(lower[1], "survey") THEN <<Tag("survey_triggered")>> ELSE <<>>)
    \o (IF Len(lower) >= 1 /\ IsWord(lower[1], "broadcast") THEN <<Tag("broadcast_sent")>> ELSE <<>>)

NoPattern(state) == [state |-> state, changed |-> FALSE, effects |-> <<>>, affected |-> {}]

(* variant of PatchApplied that does not list the patched agent            *)
PatchAppliedUnlisted(patch, r, state, agent_id, tag) ==
    IF DOMAIN patch # {} /\ r.ok
    THEN [state |-> r.state, changed |-> TRUE, effects |-> <<Tag(tag)>>, affected |-> {}]
    ELSE NoPattern(state)

PatchApplied(patch, r, state, agent_id, tag) ==
    IF DOMAIN patch # {} /\ r.ok
    THEN [state |-> r.state, changed |-> TRUE, effects |-> <<Tag(tag)>>, affected |-> {agent_id}]
    ELSE NoPattern(state)

PatchAgent(state, agent_id, patch, tag) ==
    PatchApplied(patch, ApplyAgentPatch(state, agent_id, patch), state, agent_id, tag)

(* main.py 384-391: the set-agent pattern                                   *)
SetAgent(state, normalized) ==
    IF SetAgentMatch(normalized)
    THEN PatchAgent(state, normalized[3].v, ParseAssignments(From(normalized, 4)), "agent_state_set")
    ELSE NoPattern(state)

(* variant of ImplicitTarget that does not look at the set-agent form       *)
ImplicitTargetAlways(state, normalized, target_agent_id) ==
    IF target_agent_id # None
    THEN PatchAgent(state, target_agent_id[1], ParseAssignments(normalized), "target_agent_state_set")
    ELSE NoPattern(state)

(* main.py 393-399: the implicit-target pattern                             *)
ImplicitTarget(state, normalized, target_agent_id) ==
    IF target_agent_id # None /\ ~SetAgentMatch(normalized)
    THEN PatchAgent(state, target_agent_id[1], ParseAssignments(normalized), "target_agent_state_set")
    ELSE NoPattern(state)

(* two patterns in sequence: the second one ran on the state the first left *)
Both(p, q) ==
    [state |-> q.state, changed |-> p.changed \/ q.changed,
     effects |-> p.effects \o q.effects, affected |-> p.affected \cup q.affected]

(* variant of Status that looks at state_changed alone                      *)
StatusChangedOnly(state_changed, effects) ==
    IF state_changed THEN "applied" ELSE "recorded_only"

Status(state_changed, effects) ==
    IF state_changed \/ effects # <<>> THEN "applied" ELSE "recorded_only"

(* variant of Summary without the command_recorded fallback                 *)
SummaryNoFallback(p, normalized) ==
    [raised |-> FALSE, state |-> p.state, changed |-> p.changed,
     status |-> Status(p.changed, p.effects),
     normalizedCommand |-> normalized,
     effects |-> p.effects,
     affectedAgentIds |-> SortedSeq(p.affected)]

(* main.py 429-438: status, the command_recorded fallback, the summary       *)
Summary(p, normalized) ==
    [raised |-> FALSE, state |-> p.state, changed |-> p.changed,
     status |-> Status(p.changed, p.effects),
     normalizedCommand |-> normalized,
     effects |-> IF p.effects = <<>> THEN <<Tag("command_recorded")>> ELSE p.effects,
     affectedAgentIds |-> SortedSeq(p.affected)]

Raised(p, normalized) ==
    [raised |-> TRUE, state |-> p.state, changed |-> p.changed,
     status |-> "raised", normalizedCommand |-> normalized, effects |-> p.effects,
     affectedAgentIds |-> <<>>]

ThenSetAgent(p, normalized) == Both(p, SetAgent(p.state, normalized))
ThenImplicitTarget(p, normalized, target_agent_id) ==
    Both(p, ImplicitTarget(p.state, normalized, target_agent_id))
ThenGroupShift(p, normalized) == Both(p, GroupShift(p.state, normalized))
ThenRecordedOnly(p, lower) == [p EXCEPT !.effects = @ \o RecordedOnly(lower)]

(* main.py 363-427 on the normalized command                                *)
ExecutePatterns(p1, normalized, target_agent_id) ==
    IF SetAgentMatch(normalized) /\ IntRaises(normalized[3])
    THEN Raised(p1, normalized)
    ELSE Summary(ThenRecordedOnly(ThenGroupShift(ThenImplicitTarget(ThenSetAgent(p1, normalized),
                     normalized, target_agent_id), normalized), normalized), normalized)

ExecuteNormalized(state, normalized, target_agent_id) ==
    ExecutePatterns(RunControl(state, normalized), normalized, target_agent_id)

(* _execute_intervention: the state as the call leaves it and what it       *)
(* returns; raised = TRUE when the call ends in an exception, state then    *)
(* being the state as mutated up to the raise                               *)
ExecuteIntervention(state, command, target_agent_id) ==
    ExecuteNormalized(state, Normalize(command), target_agent_id)


-----------------------------------------------------------------------------
(* Persistence: models/database.py                                          *)

(* json.dumps(state.agents): every key is written as a string               *)
JsonDumpsAgents(agents) ==
    [k \in {StrKey(j.n) : j \in DOMAIN agents} |->
        IF k \in DOMAIN agents THEN agents[k] ELSE agents[IntKey(k.n)]]

(* init_db: INSERT OR IGNORE INTO simulation_state (1, 0, 0, 1.0, config)   *)
InitialRow ==
    [current_tick |-> 0, is_running |-> 0, speed |-> 1 * Scale,
     selected_agent_id |-> None, config |-> SimulationConfig, agents_json |-> EmptyAgents]

(* save_simulation_state: the UPDATE of the six columns                     *)
SaveSimulationState(state) ==
    [current_tick |-> state.tick,
     is_running |-> IF state.is_running THEN 1 ELSE 0,
     speed |-> state.speed,
     selected_agent_id |-> state.selected_agent_id,
     config |-> state.config,
     agents_json |-> JsonDumpsAgents(state.agents)]

(* get_simulation_state: a fresh SimulationState built from the row; the    *)
(* fields that have no column keep the dataclass defaults.  A NULL          *)
(* agents_json and the text "{}" both load as the empty dict.               *)
GetSimulationState(row) ==
    [SimulationState EXCEPT
        !.tick = row.current_tick,
        !.is_running = (row.is_running # 0),
        !.speed = row.speed,
        !.selected_agent_id = row.selected_agent_id,
        !.config = row.config,
        !.agents = row.agents_json]

(* get_all_agents / get_all_group_profiles: the stored personas             *)
AllAgents == [k \in {IntKey(id) : id \in AgentIds} |-> AgentRuntime(k.n, InitialAgentState)]
AllGroupProfiles == {ProfileGroup(id) : id \in AgentIds}

-----------------------------------------------------------------------------
(* algorithms/emotion.py simulate_mood_change, traits in tenths             *)

Stimuli == {300}
Traits == {5}

Abs(x) == IF x < 0 THEN -x ELSE x

SimulateMoodChange(current_mood, external_stimulus, openness, neuroticism) ==
    LET raw == IF external_stimulus < 0
               THEN -((Abs(external_stimulus) * (20 + neuroticism)) \div 20)
               ELSE external_stimulus
        change == (raw * (30 + 4 * openness)) \div 100
        new_mood == (9 * current_mood + change) \div 10
    IN  Max2(MoodMin, Min2(MoodMax, new_mood))

TickerAction(new_mood) ==
    IF new_mood > 300 THEN "celebrate" ELSE IF new_mood < -300 THEN "complain" ELSE "observe"

(* main.py 670-695: one pass of the update loop, for every choice of agent  *)
(* and stimulus                                                             *)
UpdateOnce(agents) ==
    {[agents EXCEPT ![k] = [@ EXCEPT !.state =
          [@ EXCEPT !.mood = SimulateMoodChange(agents[k].state.mood, st, o, nu),
                    !.lastAction = TickerAction(SimulateMoodChange(agents[k].state.mood, st, o, nu))]]] :
        <<k, st, o, nu>> \in (DOMAIN agents) \X Stimuli \X Traits \X Traits}

RECURSIVE UpdateLoop(_, _)
UpdateLoop(S, n) ==
    IF n = 0 THEN S ELSE UpdateLoop(UNION {UpdateOnce(a) : a \in S}, n - 1)

(* main.py 603-664: maybe one agent posts; its lastAction becomes "post"    *)
MaybePost(agents) ==
    {agents} \cup {[agents EXCEPT ![k] = [@ EXCEPT !.state = [@ EXCEPT !.lastAction = "post"]]] :
                      k \in DOMAIN agents}

FallbackAgents(agents) ==
    IF DOMAIN agents = {} THEN {agents}
    ELSE UpdateLoop(MaybePost(agents), NumToUpdate)


-----------------------------------------------------------------------------
(* Requests                                                                 *)

CmdPause == <<W("pause")>>
CmdResume == <<W("resume")>>
CmdSpeedHigh == <<W("set"), KV("speed", 15 * Scale)>>
CmdSetAgent == <<W("set"), W("agent"), Num(1, 1), KV("mood", 2 * Scale), KV("resources", 99999 * Scale)>>
CmdShiftUp == <<W("shift"), W("group"), W("Group"), W("A"), KV("mood", 700)>>
CmdShiftDown == <<W("shift"), W("group"), W("group"), W("a"), KV("mood", -400)>>
CmdLongId == <<W("set"), W("agent"), Num(1, MaxStrDigits + 1), KV("speed", 5 * Scale)>>
CmdTarget == <<KV("stance", -3 * Scale)>>
CmdLongIdMood == <<W("set"), W("agent"), Num(2, MaxStrDigits + 1), KV("mood", 500)>>
CmdLongIdAbsent == <<W("set"), W("agent"), Num(7, MaxStrDigits + 1), KV("mood", 500)>>
CmdLongIdShift ==
    <<W("set"), W("agent"), Num(1, MaxStrDigits + 1), KV("stance", 500),
      W("shift"), W("group"), W("Group"), W("A"), KV("mood", 300)>>
CmdFragments == <<W("please"), KV("Mood", 2 * Scale), W("and"), KV("resources", 50000 * Scale)>>
CmdShiftB == <<W("Shift"), W("GROUP"), W("group"), W("b"), KV("mood", 300)>>
CmdUnrecognized == <<W("do"), W("something"), W("unrecognized")>>
GroupPrefix == <<LB, W("Group"), W("A"), W("Group"), W("B"), RB>>
CmdSpacedPrefix == <<SP, LB, W("x"), RB, SP, W("pause"), SP>>

NoExec ==
    [raised |-> FALSE, changed |-> FALSE, mutated |-> FALSE, status |-> "",
     normalizedCommand |-> <<>>, effects |-> <<>>, affectedAgentIds |-> <<>>]

(* the execution summary of a call on state `before`; mutated tells whether *)
(* the call left the state different from `before`                          *)
ExecOf(before, out) ==
    [raised |-> out.raised, changed |-> out.changed, mutated |-> (out.state # before),
     status |-> out.status, normalizedCommand |-> out.normalizedCommand,
     effects |-> out.effects, affectedAgentIds |-> out.affectedAgentIds]

(* what a handler call returned: n numbers the calls                        *)
Response(n, op, code, command, target, agent_id, speed_req, exec) ==
    [n |-> n, op |-> op, code |-> code, command |-> command, target |-> target,
     agent_id |-> agent_id, speed_req |-> speed_req, exec |-> exec]

NoResult == [set |-> FALSE, tick |-> 0]

NoResponse == Response(0, "none", 0, <<>>, None, 0, None, NoExec)

Serving == tpc \notin {"boot", "init", "stopped"} /\ resp.n < MaxCalls

-----------------------------------------------------------------------------
(* websocket/manager.py.  A defaultdict(set) is a function whose domain is  *)
(* the set of keys made so far: indexing a missing key makes it, with the   *)
(* empty set as its value.                                                  *)

Clients == {"c1", "c2"}
EventTypes == {"tick"}
WatchedAgents == {1}

Subscription == [event_types |-> {}, agent_ids |-> {}]

WebSocketManager ==
    [active_connections |-> {},
     subscriptions |-> [c \in {} |-> Subscription],
     event_subscribers |-> [e \in {} |-> {}],
     agent_subscribers |-> [a \in {} |-> {}]]

(* index[key].add(client_id) for every key of keys                          *)
AddAll(index, keys, client_id) ==
    [k \in DOMAIN index \cup keys |->
        IF k \in keys
        THEN (IF k \in DOMAIN index THEN index[k] ELSE {}) \cup {client_id}
        ELSE index[k]]

(* index[key].discard(client_id) for every key of keys                      *)
DiscardAll(index, keys, client_id) ==
    [k \in DOMAIN index \cup keys |->
        IF k \in keys
        THEN (IF k \in DOMAIN index THEN index[k] ELSE {}) \ {client_id}
        ELSE index[k]]

(* connect, lines 66-67                                                     *)
Connect(w, client_id) ==
    [w EXCEPT !.active_connections = w.active_connections \cup {client_id},
              !.subscriptions = [c \in DOMAIN w.subscriptions \cup {client_id} |->
                                    IF c = client_id THEN Subscription ELSE w.subscriptions[c]]]

(* variant of Disconnect that leaves the subscriber sets as they are        *)
DisconnectKeepIndex(w, client_id) ==
    [w EXCEPT !.active_connections = w.active_connections \ {client_id},
              !.subscriptions = [c \in DOMAIN w.subscriptions \ {client_id} |-> w.subscriptions[c]]]

Disconnect(w, client_id) ==
    IF client_id \in DOMAIN w.subscriptions
    THEN [active_connections |-> w.active_connections \ {client_id},
          subscriptions |-> [c \in DOMAIN w.subscriptions \ {client_id} |-> w.subscriptions[c]],
          event_subscribers |->
              DiscardAll(w.event_subscribers, w.subscriptions[client_id].event_types, client_id),
          agent_subscribers |->
              DiscardAll(w.agent_subscribers, w.subscriptions[client_id].agent_ids, client_id)]
    ELSE [w EXCEPT !.active_connections = w.active_connections \ {client_id}]

Subscribe(w, client_id, event_types, agent_ids) ==
    IF client_id \notin DOMAIN w.subscriptions THEN w
    ELSE [w EXCEPT
            !.subscriptions[client_id] =
                [event_types |-> w.subscriptions[client_id].event_types \cup event_types,
                 agent_ids |-> w.subscriptions[client_id].agent_ids \cup agent_ids],
            !.event_subscribers = AddAll(w.event_subscribers, event_types, client_id),
            !.agent_subscribers = AddAll(w.agent_subscribers, agent_ids, client_id)]

Unsubscribe(w, client_id, event_types, agent_ids) ==
    IF client_id \notin DOMAIN w.subscriptions THEN w
    ELSE [w EXCEPT
            !.subscriptions[client_id] =
                [event_types |-> w.subscriptions[client_id].event_types \ event_types,
                 agent_ids |-> w.subscriptions[client_id].agent_ids \ agent_ids],
            !.event_subscribers = DiscardAll(w.event_subscribers, event_types, client_id),
            !.agent_subscribers = DiscardAll(w.agent_subscribers, agent_ids, client_id)]

(* broadcast, lines 132-135: the target clients                             *)
BroadcastTargets(w, event_type) ==
    IF event_type \in DOMAIN w.event_subscribers
    THEN w.event_subscribers[event_type]
    ELSE w.active_connections

(* broadcast_to_agent_subscribers, lines 149-152                            *)
AgentTargets(w, agent_id) ==
    IF agent_id \in DOMAIN w.agent_subscribers THEN w.agent_subscribers[agent_id] ELSE {}

(* a broadcast to `targets` awaits a send: one of them is connected         *)
Reaches(w, targets) == targets \cap w.active_connections # {}

RECURSIVE DisconnectAll(_, _)
DisconnectAll(w, clients) ==
    IF clients = {} THEN w
    ELSE LET c == CHOOSE x \in clients : TRUE
         IN  DisconnectAll(Disconnect(w, c), clients \ {c})

(* the messages of emit_tick_update, emit_agent_update, emit_event_created, *)
(* without their payload of agent state                                     *)
Message(type, tick, is_running, speed, agent_id) ==
    [type |-> type, tick |-> tick, is_running |-> is_running, speed |-> speed,
     agent_id |-> agent_id]

(* the outcome of one send_json: the text is made of the message when the  *)
(* send begins, and `state` is the agent state it then holds                *)
Delivery(c, message, state, sent) ==
    [to |-> c, message |-> message, state |-> state, sent |-> sent]

(* a create_intervention call: where it is suspended, the agents it saved,  *)
(* the message it is sending and the agent state serialised into the send   *)
(* under way, the clients the loop has still to reach (and whether it has   *)
(* reached none yet), the ids whose agent_update is still to come           *)
NoCall ==
    [pc |-> "idle", command |-> <<>>, target |-> None, execution |-> NoExec,
     post |-> EmptyAgents, message |-> Message("", 0, FALSE, 0, 0),
     state |-> InitialAgentState, queue |-> {}, first |-> FALSE, todo |-> <<>>]

(* runtime_post is the post table of the OASIS runtime database, the others *)
(* are tables of the application's database                                 *)
EmptyTables ==
    [intervention_record |-> <<>>, timeline_event |-> <<>>, simulation_snapshot |-> <<>>,
     post |-> <<>>, oasis_post_sync |-> {}, log_line |-> <<>>, runtime_post |-> <<>>]

NoActions == [now |-> 0, action_timestamps |-> <<>>]

ExtInit ==
    /\ ws = WebSocketManager
    /\ hpc = NoCall
    /\ net = {}
    /\ tables = EmptyTables
    /\ rate = NoActions

-----------------------------------------------------------------------------
(* lifespan (main.py 104-131): initialise OASIS, auto-start, create ticker  *)
Boot ==
    /\ tpc = "boot"
    /\ \E ok \in BOOLEAN :
          oasis' = IF useOasis THEN [env |-> ok, tick |-> 0] ELSE oasis
    /\ mem' = [GetSimulationState(db) EXCEPT !.is_running = TRUE]
    /\ db' = SaveSimulationState(mem')
    /\ tpc' = "init"
    /\ UNCHANGED <<useOasis, result, resp, steps>>
    /\ UNCHANGED ext

(* simulation_ticker, main.py 446-469                                       *)
TickerInit ==
    /\ tpc = "init"
    /\ LET loaded == GetSimulationState(db)
           withAgents == IF DOMAIN loaded.agents = {}
                         THEN [loaded EXCEPT !.agents = AllAgents] ELSE loaded
           withGroups == IF withAgents.groups = {}
                         THEN [withAgents EXCEPT !.groups = AllGroupProfiles] ELSE withAgents
       IN  /\ mem' = withGroups
           /\ db' = IF withGroups # loaded THEN SaveSimulationState(withGroups) ELSE db
    /\ tpc' = "loop"
    /\ UNCHANGED <<useOasis, oasis, result, resp, steps>>
    /\ UNCHANGED ext

(* main.py 476-477, 593-698: one fallback step, up to the save              *)
TickerFallback ==
    /\ tpc = "loop"
    /\ ~useOasis
    /\ mem.is_running
    /\ steps < MaxSteps
    /\ steps' = steps + 1
    /\ \E agents \in FallbackAgents(mem.agents) :
          mem' = [mem EXCEPT !.tick = mem.tick + 1, !.agents = agents]
    /\ db' = SaveSimulationState(mem')
    /\ tpc' = "emit_tick"
    /\ UNCHANGED <<useOasis, oasis, result, resp>>
    /\ UNCHANGED ext

(* main.py 476-480: the ticker takes the lock and awaits the OASIS step     *)
TickerOasisBegin ==
    /\ tpc = "loop"
    /\ useOasis
    /\ mem.is_running
    /\ steps < MaxSteps
    /\ steps' = steps + 1
    /\ tpc' = "step"
    /\ UNCHANGED <<db, mem, useOasis, oasis, result, resp>>
    /\ UNCHANGED ext

(* oasis_integration.py 491-503, the rolling budget of actions.  Times are  *)
(* whole seconds.                                                           *)
RateWindow == 60

(* the popleft loop of lines 495-496                                        *)
RECURSIVE PruneTimestamps(_, _)
PruneTimestamps(timestamps, now) ==
    IF timestamps # <<>> /\ now - Head(timestamps) > RateWindow
    THEN PruneTimestamps(Tail(timestamps), now)
    ELSE timestamps

(* _apply_action_rate_limit, lines 497-498, on the pruned timestamps        *)
ApplyActionRateLimit(requested_active, timestamps) ==
    LET available == Max2(0, LlmMaxActionsPerMinute - Len(timestamps))
    IN  Max2(1, Min2(requested_active, IF available > 0 THEN available ELSE 1))

(* step, lines 335-338: the number of agents that act                       *)
NumActive(timestamps) ==
    ApplyActionRateLimit(Max2(1, Min2(Cardinality(AgentIds), LlmActiveAgents)), timestamps)

(* what a step that starts at r.now and takes `took` seconds leaves of the  *)
(* budget: _record_action_budget (lines 500-503) runs when the step         *)
(* succeeded (line 440)                                                     *)
StepBudget(r, ok, took) ==
    [now |-> r.now + took,
     action_timestamps |->
        IF ok
        THEN PruneTimestamps(r.action_timestamps, r.now)
                \o [i \in 1 .. NumActive(PruneTimestamps(r.action_timestamps, r.now)) |->
                        r.now + took]
        ELSE PruneTimestamps(r.action_timestamps, r.now)]

(* oasis_integration.py step (320-321, 439, 456-457, 470-488) and           *)
(* main.py 481: the step returns and its tick is stored in _sim_state       *)
TickerOasisReturn ==
    /\ tpc = "step"
    /\ \E ok \in BOOLEAN :
          /\ oasis' = IF oasis.env /\ ok THEN [oasis EXCEPT !.tick = oasis.tick + 1] ELSE oasis
          /\ result' = [set |-> TRUE, tick |-> oasis'.tick]
          /\ rate' = IF oasis.env THEN StepBudget(rate, ok, 0) ELSE rate
    /\ mem' = [mem EXCEPT !.tick = result'.tick]
    /\ tpc' = "sync"
    /\ UNCHANGED <<db, useOasis, resp, steps>>
    /\ UNCHANGED <<ws, hpc, net, tables>>

(* main.py 483-592 then 698: the awaits of the event/post/log emits are     *)
(* over, the ticker saves _sim_state                                        *)
TickerSave ==
    /\ tpc = "sync"
    /\ db' = SaveSimulationState(mem)
    /\ tpc' = "emit_tick"
    /\ UNCHANGED <<mem, useOasis, oasis, result, resp, steps>>
    /\ UNCHANGED ext

(* main.py 701-703: emit_tick_update, release the lock, sleep               *)
(* a client whose send raised is disconnected (manager.py 116-121)          *)
TickerEmitTick ==
    /\ tpc = "emit_tick"
    /\ tpc' = "loop"
    /\ result' = NoResult
    /\ \E failed \in SUBSET (BroadcastTargets(ws, "tick") \cap ws.active_connections) :
          /\ ws' = DisconnectAll(ws, failed)
          /\ net' =
                {Delivery(c, Message("tick_update", mem.tick, mem.is_running, mem.speed, 0),
                          InitialAgentState, c \notin failed) :
                    c \in BroadcastTargets(ws, "tick") \cap ws.active_connections}
    /\ UNCHANGED <<db, mem, useOasis, oasis, resp, steps>>
    /\ UNCHANGED <<hpc, tables, rate>>


(* the ticker is suspended: in its sleep, in env.step (an OASIS step        *)
(* without env returns at once, oasis_integration.py 320-321), or in a      *)
(* send_json of one of its emits                                            *)
TickerAwaits ==
    \/ tpc = "loop"
    \/ tpc = "step" /\ oasis.env
    \/ tpc = "sync" /\ ws.active_connections # {}
    \/ tpc = "emit_tick" /\ Reaches(ws, BroadcastTargets(ws, "tick"))

(* lifespan, main.py 135-138: ticker_task.cancel() raises CancelledError    *)
(* at the await the ticker is suspended in; neither the except Exception    *)
(* clauses of step (oasis_integration.py 386, 424, 470) nor that of         *)
(* send_personal_message catch it, the ticker's own handler (main.py 705)   *)
(* breaks out of the loop.  close_simulation then drops env.                *)
Shutdown ==
    /\ TickerAwaits
    /\ tpc' = "stopped"
    /\ result' = NoResult
    /\ oasis' = [oasis EXCEPT !.env = FALSE]
    /\ UNCHANGED <<db, mem, useOasis, resp, steps>>
    /\ UNCHANGED ext

-----------------------------------------------------------------------------
(* The REST handlers.  None of them awaits between loading and saving the   *)
(* state, so load -> mutate -> save is one step of the event loop.          *)

InterventionRequests ==
    {<<c, None>> : c \in {CmdPause, CmdSetAgent, CmdShiftUp, CmdShiftDown, CmdLongId}}
        \cup {<<CmdTarget, Some(2)>>}
PatchStateRequests ==
    {<<Some(FALSE), None, None>>, <<None, Some(15 * Scale), Some(-1)>>}
PatchAgentRequests == {<<1, 5 * Scale>>}
StartRequests == {Some(0), Some(50)}
SpeedRequests == {15 * Scale}
TickRequests == {2}

(* main.py 1378-1384                                                        *)
AppendTrail(state, entry) ==
    LET trail == Append(state.interventions, entry)
    IN  [state EXCEPT !.interventions =
            IF Len(trail) > TrailCap THEN SubSeq(trail, Len(trail) - TrailCap + 1, Len(trail))
            ELSE trail]

(* main.py 1375-1386: the engine has run on the loaded state (which is now  *)
(* _sim_state); when it raised, the handler ends there                      *)
Intervened(loaded, command, target, out) ==
    IF out.raised
    THEN /\ mem' = out.state
         /\ db' = db
         /\ resp' = Response(resp.n + 1, "intervention", 500, command, target, 0, None,
                             ExecOf(loaded, out))
    ELSE /\ mem' = AppendTrail(out.state, [command |-> command, targetAgentId |-> target])
         /\ db' = SaveSimulationState(mem')
         /\ resp' = Response(resp.n + 1, "intervention", 200, command, target, 0, None,
                             ExecOf(loaded, out))

Intervene(loaded, command, target) ==
    Intervened(loaded, command, target, ExecuteIntervention(loaded, command, target))

(* create_intervention, main.py 1369-1386                                   *)
CreateIntervention(command, target) ==
    /\ Serving
    /\ Intervene(GetSimulationState(db), command, target)
    /\ UNCHANGED <<useOasis, oasis, tpc, result, steps>>
    /\ UNCHANGED ext

(* patch_state, main.py 1008-1032: a local state, _sim_state is not touched *)
PatchState(isRunning, speed, tick) ==
    /\ Serving
    /\ LET s0 == GetSimulationState(db)
           s1 == IF isRunning # None THEN [s0 EXCEPT !.is_running = isRunning[1]] ELSE s0
           s2 == IF speed # None THEN [s1 EXCEPT !.speed = ClampSpeed(speed[1])] ELSE s1
           s3 == IF tick # None THEN [s2 EXCEPT !.tick = Max2(0, tick[1])] ELSE s2
       IN  db' = SaveSimulationState(s3)
    /\ resp' = Response(resp.n + 1, IF tick # None THEN "patch_state_tick" ELSE "patch_state",
                        200, <<>>, None, 0, speed, NoExec)
    /\ UNCHANGED <<mem, useOasis, oasis, tpc, result, steps>>
    /\ UNCHANGED ext

(* patch_agent_state, main.py 858-886                                       *)
PatchAgentState(agent_id, mood) ==
    /\ Serving
    /\ LET state == GetSimulationState(db) IN
       IF IntKey(agent_id) \notin DOMAIN state.agents
       THEN /\ db' = db
            /\ resp' = Response(resp.n + 1, "patch_agent", 404, <<>>, None, agent_id, None, NoExec)
       ELSE /\ db' = SaveSimulationState(
                        WithAgentState(state, IntKey(agent_id),
                            [state.agents[IntKey(agent_id)].state EXCEPT !.mood = mood]))
            /\ resp' = Response(resp.n + 1, "patch_agent", 200, <<>>, None, agent_id, None, NoExec)
    /\ UNCHANGED <<mem, useOasis, oasis, tpc, result, steps>>
    /\ UNCHANGED ext

(* start_simulation, main.py 1037-1052; "if request and request.speed"      *)
StartSimulation(speed) ==
    /\ Serving
    /\ LET s0 == [GetSimulationState(db) EXCEPT !.is_running = TRUE]
       IN  mem' = IF speed # None /\ speed[1] # 0
                  THEN [s0 EXCEPT !.speed = ClampSpeed(speed[1])] ELSE s0
    /\ db' = SaveSimulationState(mem')
    /\ resp' = Response(resp.n + 1, "start", 200, <<>>, None, 0, speed, NoExec)
    /\ UNCHANGED <<useOasis, oasis, tpc, result, steps>>
    /\ UNCHANGED ext

(* stop_simulation / pause_simulation, main.py 1055-1078                    *)
PauseSimulation ==
    /\ Serving
    /\ mem' = [GetSimulationState(db) EXCEPT !.is_running = FALSE]
    /\ db' = SaveSimulationState(mem')
    /\ resp' = Response(resp.n + 1, "pause", 200, <<>>, None, 0, None, NoExec)
    /\ UNCHANGED <<useOasis, oasis, tpc, result, steps>>
    /\ UNCHANGED ext

(* resume_simulation, main.py 1081-1091                                     *)
ResumeSimulation ==
    /\ Serving
    /\ mem' = [GetSimulationState(db) EXCEPT !.is_running = TRUE]
    /\ db' = SaveSimulationState(mem')
    /\ resp' = Response(resp.n + 1, "resume", 200, <<>>, None, 0, None, NoExec)
    /\ UNCHANGED <<useOasis, oasis, tpc, result, steps>>
    /\ UNCHANGED ext

(* set_simulation_speed, main.py 1094-1104                                  *)
SetSimulationSpeed(speed) ==
    /\ Serving
    /\ mem' = [GetSimulationState(db) EXCEPT !.speed = ClampSpeed(speed)]
    /\ db' = SaveSimulationState(mem')
    /\ resp' = Response(resp.n + 1, "set_speed", 200, <<>>, None, 0, Some(speed), NoExec)
    /\ UNCHANGED <<useOasis, oasis, tpc, result, steps>>
    /\ UNCHANGED ext

(* set_simulation_tick, main.py 1107-1117                                   *)
SetSimulationTick(tick) ==
    /\ Serving
    /\ mem' = [GetSimulationState(db) EXCEPT !.tick = Max2(0, tick)]
    /\ db' = SaveSimulationState(mem')
    /\ resp' = Response(resp.n + 1, "set_tick", 200, <<>>, None, 0, None, NoExec)
    /\ UNCHANGED <<useOasis, oasis, tpc, result, steps>>
    /\ UNCHANGED ext

(* the process is stopped and started again: module state is rebuilt        *)
(* (main.py 256, oasis_integration.py 906), the store is kept               *)
Restart ==
    /\ tpc \notin {"boot", "init"}
    /\ mem' = SimulationState
    /\ oasis' = [env |-> FALSE, tick |-> 0]
    /\ result' = NoResult
    /\ tpc' = "boot"
    /\ UNCHANGED <<db, useOasis, resp, steps>>
    /\ UNCHANGED ext

-----------------------------------------------------------------------------
(* The snapshot routes (main.py 1253-1313)                                  *)

SnapshotNames == {"baseline"}
SnapshotIds == {"s1"}

(* create_snapshot, main.py 1253-1267.  The def at line 1254 binds the      *)
(* module's name create_snapshot, imported from models at line 32, to the   *)
(* handler itself, so line 1258 calls the one-parameter handler with two    *)
(* arguments: TypeError, after the state has been read and before anything  *)
(* is written.                                                              *)
CreateSnapshot(name) ==
    /\ Serving
    /\ resp' = Response(resp.n + 1, "create_snapshot", 500, <<>>, None, 0, None, NoExec)
    /\ UNCHANGED <<db, mem, useOasis, oasis, tpc, result, steps>>
    /\ UNCHANGED ext

(* load_snapshot, main.py 1288-1306: 404 without a row; with a row,         *)
(* get_snapshot_by_id (database.py 679-695) passes name= to                 *)
(* SimulationSnapshot, which has no such field: TypeError                   *)
LoadSnapshot(snapshot_id) ==
    /\ Serving
    /\ resp' = Response(resp.n + 1, "load_snapshot",
                        IF \E i \in 1 .. Len(tables.simulation_snapshot) :
                               tables.simulation_snapshot[i].id = snapshot_id
                        THEN 500 ELSE 404,
                        <<>>, None, 0, None, NoExec)
    /\ UNCHANGED <<db, mem, useOasis, oasis, tpc, result, steps>>
    /\ UNCHANGED ext

(* delete_snapshot, main.py 1309-1313: answers "deleted", deletes nothing   *)
DeleteSnapshot(snapshot_id) ==
    /\ Serving
    /\ resp' = Response(resp.n + 1, "delete_snapshot", 200, <<>>, None, 0, None, NoExec)
    /\ UNCHANGED <<db, mem, useOasis, oasis, tpc, result, steps>>
    /\ UNCHANGED ext

-----------------------------------------------------------------------------
(* The /ws endpoint (main.py 1462-1506).  A client id is a fresh uuid4, so  *)
(* an id is never that of a client the manager or a running broadcast       *)
(* still knows.                                                             *)

SubscribeRequests == {<<{"tick"}, {}>>, <<{}, WatchedAgents>>, <<{"tick"}, WatchedAgents>>}

(* connect, manager.py 50-76: register, then the welcome message            *)
WsConnect(c) ==
    /\ c \notin ws.active_connections
    /\ c \notin DOMAIN ws.subscriptions
    /\ c \notin hpc.queue
    /\ \E ok \in BOOLEAN :
          ws' = IF ok THEN Connect(ws, c) ELSE Disconnect(Connect(ws, c), c)
    /\ UNCHANGED <<db, mem, useOasis, oasis, tpc, result, resp, steps>>
    /\ UNCHANGED <<hpc, net, tables, rate>>

WsSubscribe(c, event_types, agent_ids) ==
    /\ c \in ws.active_connections
    /\ ws' = Subscribe(ws, c, event_types, agent_ids)
    /\ UNCHANGED <<db, mem, useOasis, oasis, tpc, result, resp, steps>>
    /\ UNCHANGED <<hpc, net, tables, rate>>

WsUnsubscribe(c, event_types, agent_ids) ==
    /\ c \in ws.active_connections
    /\ ws' = Unsubscribe(ws, c, event_types, agent_ids)
    /\ UNCHANGED <<db, mem, useOasis, oasis, tpc, result, resp, steps>>
    /\ UNCHANGED <<hpc, net, tables, rate>>

(* main.py 1502-1506: the socket closed or raised                           *)
WsDisconnect(c) ==
    /\ c \in ws.active_connections
    /\ ws' = Disconnect(ws, c)
    /\ UNCHANGED <<db, mem, useOasis, oasis, tpc, result, resp, steps>>
    /\ UNCHANGED <<hpc, net, tables, rate>>

-----------------------------------------------------------------------------
(* create_intervention with clients connected (main.py 1369-1423).  The     *)
(* handler gives up the event loop at each send_json of a broadcast and     *)
(* nowhere else: a broadcast none of whose targets is connected awaits      *)
(* nothing, and the handler runs on to the next one.                        *)

(* the handler is at the broadcast of `message` to `targets`                *)
AtBroadcast(h, pc, message, targets) ==
    [h EXCEPT !.pc = pc, !.message = message, !.queue = targets, !.first = TRUE]

(* main.py 1390-1393, from the first id still to do: the next agent_update  *)
(* that awaits, or the end of the loop                                      *)
RECURSIVE AgentLoop(_, _, _)
AgentLoop(h, state, w) ==
    IF h.todo = <<>> THEN [h EXCEPT !.pc = "store", !.queue = {}]
    ELSE IF AgentKeyRef(state, Head(h.todo)) # NoKey /\ Reaches(w, AgentTargets(w, Head(h.todo)))
         THEN AtBroadcast([h EXCEPT !.todo = Tail(h.todo)], "agent",
                          Message("agent_update", 0, FALSE, 0, Head(h.todo)),
                          AgentTargets(w, Head(h.todo)))
         ELSE AgentLoop([h EXCEPT !.todo = Tail(h.todo)], state, w)

(* main.py 1415-1423: emit_event_created, then the return                   *)
EventStage(h, w) ==
    IF Reaches(w, BroadcastTargets(w, "event"))
    THEN AtBroadcast(h, "event", Message("event_created", 0, FALSE, 0, 0),
                     BroadcastTargets(w, "event"))
    ELSE [h EXCEPT !.pc = "return", !.queue = {}]

(* where the handler is next suspended once the broadcast of h is over      *)
AfterBroadcast(h, state, w) ==
    IF h.pc = "event" THEN [h EXCEPT !.pc = "return", !.queue = {}]
    ELSE IF AgentLoop(h, state, w).pc = "agent" THEN AgentLoop(h, state, w)
    ELSE EventStage(AgentLoop(h, state, w), w)

(* save_intervention and save_timeline_event, main.py 1395-1413             *)
StoreRecords(t, h) ==
    [t EXCEPT !.intervention_record =
                  Append(@, [command |-> h.command, target_agent_id |-> h.target]),
              !.timeline_event =
                  Append(@, [type |-> "intervention", agent_id |-> h.target,
                             command |-> h.command])]

(* send_json of the message of h begins: an agent_update holds the dict of  *)
(* the agent in _sim_state, serialised as it is now                         *)
Serialised(h, state) ==
    [h EXCEPT !.state = IF h.message.type = "agent_update"
                              /\ AgentKeyRef(state, h.message.agent_id) # NoKey
                        THEN state.agents[AgentKeyRef(state, h.message.agent_id)].state
                        ELSE InitialAgentState]

(* the handler went from stage `from` to h, _sim_state being `state`        *)
HandlerGoes(from, h, state) ==
    /\ tables' = IF from # "event" /\ h.pc \in {"event", "return"}
                 THEN StoreRecords(tables, h) ELSE tables
    /\ IF h.pc = "return"
       THEN /\ hpc' = NoCall
            /\ resp' = Response(resp.n + 1, "intervention", 200, h.command, h.target, 0, None,
                                h.execution)
       ELSE /\ hpc' = Serialised(h, state)
            /\ resp' = resp

(* main.py 1373-1389: load, execute, save, then emit_tick_update            *)
Intervening(loaded, command, target, out) ==
    IF out.raised
    THEN /\ Intervened(loaded, command, target, out)
         /\ UNCHANGED <<hpc, net, tables>>
    ELSE /\ mem' = AppendTrail(out.state, [command |-> command, targetAgentId |-> target])
         /\ db' = SaveSimulationState(mem')
         /\ net' = net
         /\ HandlerGoes("begin",
               IF Reaches(ws, BroadcastTargets(ws, "tick"))
               THEN AtBroadcast(
                      [NoCall EXCEPT !.command = command, !.target = target,
                                     !.execution = ExecOf(loaded, out),
                                     !.post = mem'.agents,
                                     !.todo = out.affectedAgentIds],
                      "tick",
                      Message("tick_update", mem'.tick, mem'.is_running, mem'.speed, 0),
                      BroadcastTargets(ws, "tick"))
               ELSE AfterBroadcast(
                      [NoCall EXCEPT !.pc = "tick", !.command = command, !.target = target,
                                     !.execution = ExecOf(loaded, out),
                                     !.post = mem'.agents,
                                     !.todo = out.affectedAgentIds],
                      mem', ws),
               mem')

InterveneBegin(command, target) ==
    /\ Serving
    /\ resp.n < MaxNotifying
    /\ hpc.pc = "idle"
    /\ Intervening(GetSimulationState(db), command, target,
                   ExecuteIntervention(GetSimulationState(db), command, target))
    /\ UNCHANGED <<useOasis, oasis, tpc, result, steps, ws, rate>>

(* variant of SendPersonalMessage in which a send that raises is not caught *)
SendPersonalMessageRaising(w, c, ok) ==
    [w |-> w, sent |-> ok /\ c \in w.active_connections,
     raised |-> ~ok /\ c \in w.active_connections]

(* send_personal_message, manager.py 100-121                                *)
SendPersonalMessage(w, c, ok) ==
    IF c \notin w.active_connections THEN [w |-> w, sent |-> FALSE, raised |-> FALSE]
    ELSE IF ok THEN [w |-> w, sent |-> TRUE, raised |-> FALSE]
    ELSE [w |-> Disconnect(w, c), sent |-> FALSE, raised |-> FALSE]

(* the broadcast loop (manager.py 137-139, 152-153) sends to one more       *)
(* client; after the last one the handler runs on                           *)
Sent(c, s) ==
    /\ ws' = s.w
    /\ net' = (IF hpc.first THEN {} ELSE net) \cup {Delivery(c, hpc.message, hpc.state, s.sent)}
    /\ IF s.raised
       THEN /\ hpc' = NoCall
            /\ resp' = Response(resp.n + 1, "intervention", 500, hpc.command, hpc.target, 0,
                                None, hpc.execution)
            /\ tables' = tables
       ELSE IF Reaches(s.w, hpc.queue \ {c})
            THEN HandlerGoes(hpc.pc,
                    [hpc EXCEPT !.queue = hpc.queue \ {c}, !.first = FALSE], mem)
            ELSE HandlerGoes(hpc.pc,
                    AfterBroadcast([hpc EXCEPT !.queue = hpc.queue \ {c}, !.first = FALSE],
                                   mem, s.w), mem)

Send(c) ==
    /\ hpc.pc # "idle"
    /\ c \in hpc.queue \cap ws.active_connections
    /\ \E ok \in BOOLEAN : Sent(c, SendPersonalMessage(ws, c, ok))
    /\ UNCHANGED <<db, mem, useOasis, oasis, tpc, result, steps, rate>>

-----------------------------------------------------------------------------
Init ==
    /\ db = InitialRow
    /\ mem = SimulationState
    /\ useOasis \in BOOLEAN
    /\ oasis = [env |-> FALSE, tick |-> 0]
    /\ tpc = "boot"
    /\ result = NoResult
    /\ resp = NoResponse
    /\ steps = 0
    /\ ExtInit

Ticker ==
    \/ Boot
    \/ TickerInit
    \/ TickerFallback
    \/ TickerOasisBegin
    \/ TickerOasisReturn
    \/ TickerSave
    \/ TickerEmitTick

Handlers ==
    \/ \E r \in InterventionRequests : CreateIntervention(r[1], r[2])
    \/ \E r \in PatchStateRequests : PatchState(r[1], r[2], r[3])
    \/ \E r \in PatchAgentRequests : PatchAgentState(r[1], r[2])
    \/ \E sp \in StartRequests : StartSimulation(sp)
    \/ PauseSimulation
    \/ ResumeSimulation
    \/ \E sp \in SpeedRequests : SetSimulationSpeed(sp)
    \/ \E tk \in TickRequests : SetSimulationTick(tk)

Next == Ticker \/ Handlers \/ Restart

Spec == Init /\ [][Next]_vars

(* OasisSimulation alone: an initialised simulation, its steps and the      *)
(* clock                                                                    *)
StepDurations == {0, 1}
ClockSteps == {30, 31}

OasisInit ==
    /\ db = InitialRow
    /\ mem = SimulationState
    /\ useOasis = TRUE
    /\ oasis = [env |-> TRUE, tick |-> 0]
    /\ tpc = "boot"
    /\ result = NoResult
    /\ resp = NoResponse
    /\ steps = 0
    /\ ExtInit

(* OasisSimulation.step, oasis_integration.py 318-489                       *)
OasisStep(ok, took) ==
    /\ oasis.env
    /\ Len(rate.action_timestamps) < MaxRecorded
    /\ rate.now + took <= MaxNow
    /\ rate' = StepBudget(rate, ok, took)
    /\ oasis' = IF ok THEN [oasis EXCEPT !.tick = oasis.tick + 1] ELSE oasis
    /\ UNCHANGED <<db, mem, useOasis, tpc, result, resp, steps, ws, hpc, net, tables>>

(* time passes between two steps                                            *)
ClockAdvance(seconds) ==
    /\ rate.now + seconds <= MaxNow
    /\ rate' = [rate EXCEPT !.now = rate.now + seconds]
    /\ UNCHANGED <<db, mem, useOasis, oasis, tpc, result, resp, steps, ws, hpc, net, tables>>

RateNext ==
    \/ \E ok \in BOOLEAN : \E took \in StepDurations : OasisStep(ok, took)
    \/ \E seconds \in ClockSteps : ClockAdvance(seconds)

SpecRate == OasisInit /\ [][RateNext]_vars

(* The sync of the OASIS posts into the feed (main.py 539-579), with the    *)
(* posts the agents of the running simulation write.                        *)

(* the simulation writes a post into its runtime database                   *)
OasisPostCreated(user_id) ==
    /\ oasis.env
    /\ Len(tables.runtime_post) < MaxPosts
    /\ tables' = [tables EXCEPT !.runtime_post =
                     Append(@, [post_id |-> Len(tables.runtime_post) + 1, user_id |-> user_id])]
    /\ UNCHANGED <<db, mem, useOasis, oasis, tpc, result, resp, steps, ws, hpc, net, rate>>

(* get_posts, oasis_integration.py 597-637: the id becomes a string, the    *)
(* emotion is 0.0                                                           *)
GetPosts(t) ==
    {[id |-> <<"str", t.runtime_post[i].post_id>>, authorId |-> t.runtime_post[i].user_id,
      emotion |-> 0] : i \in 1 .. Len(t.runtime_post)}

(* int(post_data["id"]), main.py 556                                        *)
IntOfId(id) == id[2]

(* FeedPost(...), main.py 546-554                                           *)
FeedPost(post_data, tick) ==
    [id |-> <<"oasis_", post_data.id[2]>>, tick |-> tick, author_id |-> post_data.authorId,
     emotion |-> post_data.emotion]

(* variant of SaveOasisFeedPost that does not look the id up first          *)
SaveOasisFeedPostUnchecked(t, oasis_post_id, post) ==
    [saved |-> TRUE,
     tables |-> [t EXCEPT
        !.post = Append(@, [post_id |-> Len(t.post) + 1, user_id |-> post.author_id,
                            emotion |-> post.emotion, tick |-> post.tick]),
        !.oasis_post_sync = @ \cup {[oasis_post_id |-> oasis_post_id,
                                     feed_post_id |-> Len(t.post) + 1]}]]

(* save_oasis_feed_post, database.py 543-585; the rows of post_emotion and  *)
(* post_tick are kept with that of post                                     *)
SaveOasisFeedPost(t, oasis_post_id, post) ==
    IF \E row \in t.oasis_post_sync : row.oasis_post_id = oasis_post_id
    THEN [saved |-> FALSE, tables |-> t]
    ELSE [saved |-> TRUE,
          tables |-> [t EXCEPT
             !.post = Append(@, [post_id |-> Len(t.post) + 1, user_id |-> post.author_id,
                                 emotion |-> post.emotion, tick |-> post.tick]),
             !.oasis_post_sync = @ \cup {[oasis_post_id |-> oasis_post_id,
                                          feed_post_id |-> Len(t.post) + 1]}]]

(* save_log_line of the sync_log or of the skip_log, main.py 559-577        *)
SaveLogLine(t, saved, oasis_post_id) ==
    [t EXCEPT !.log_line =
        Append(@, [text |-> IF saved THEN "synced" ELSE "skipped", post |-> oasis_post_id])]

PostMessage(type, tick, post_id) ==
    [type |-> type, tick |-> tick, is_running |-> FALSE, speed |-> 0, agent_id |-> 0,
     post |-> post_id]

(* the outcomes of a broadcast whose sends to `failed` raise                *)
Outcomes(w, message, event_type, failed) ==
    {Delivery(c, message, InitialAgentState, c \notin failed) :
        c \in BroadcastTargets(w, event_type) \cap w.active_connections}

(* one pass of the loop body, main.py 544-579, for one of the posts fetched *)
SyncedOasisPost(post_data, s) ==
    /\ tables' = SaveLogLine(s.tables, s.saved, IntOfId(post_data.id))
    /\ \E failed \in SUBSET ws.active_connections :
          /\ ws' = DisconnectAll(ws, failed)
          /\ net' = (IF s.saved
                     THEN Outcomes(ws, PostMessage("post_created", mem.tick,
                                                   FeedPost(post_data, mem.tick).id),
                                   "post", failed)
                     ELSE {})
                    \cup Outcomes(ws', PostMessage("log_added", mem.tick, <<>>), "log", {})

SyncOasisPost(post_data) ==
    /\ oasis.env
    /\ Len(tables.log_line) < MaxLogLines
    /\ SyncedOasisPost(post_data,
          SaveOasisFeedPost(tables, IntOfId(post_data.id), FeedPost(post_data, mem.tick)))
    /\ UNCHANGED <<db, mem, useOasis, oasis, tpc, result, resp, steps, hpc, rate>>

PostAuthors == {1, 2}

FeedNext ==
    \/ \E c \in Clients : WsConnect(c)
    \/ \E user_id \in PostAuthors : OasisPostCreated(user_id)
    \/ \E post_data \in GetPosts(tables) : SyncOasisPost(post_data)

SpecFeed == OasisInit /\ [][FeedNext]_vars

(* the ticker and the handlers up to the shutdown of the process            *)
ShutdownNext == Ticker \/ Handlers \/ Shutdown

SpecShutdown == Init /\ [][ShutdownNext]_vars

(* the ticker and the handlers, those of the snapshot routes included       *)
SnapshotNext ==
    \/ Next
    \/ \E name \in SnapshotNames : CreateSnapshot(name)
    \/ \E id \in SnapshotIds : LoadSnapshot(id)
    \/ \E id \in SnapshotIds : DeleteSnapshot(id)

SpecSnapshot == Init /\ [][SnapshotNext]_vars

(* the handler and the ticker with clients connected                       *)
WsRequests == {<<CmdSetAgent, None>>, <<CmdPause, None>>}
WatchRequests == {<<{"tick"}, WatchedAgents>>}

WsNext ==
    \/ Boot
    \/ TickerInit
    \/ TickerFallback
    \/ TickerEmitTick
    \/ \E c \in Clients : WsConnect(c)
    \/ \E c \in Clients : \E r \in WatchRequests : WsSubscribe(c, r[1], r[2])
    \/ \E r \in WsRequests : InterveneBegin(r[1], r[2])
    \/ \E c \in Clients : Send(c)

SpecWs == Init /\ [][WsNext]_vars

(* the manager under every operation of the endpoint, its broadcasts those  *)
(* of the ticker                                                            *)
ManagerNext ==
    \/ Boot
    \/ TickerInit
    \/ TickerFallback
    \/ TickerEmitTick
    \/ \E c \in Clients : WsConnect(c)
    \/ \E c \in Clients : \E r \in SubscribeRequests : WsSubscribe(c, r[1], r[2])
    \/ \E c \in Clients : \E r \in SubscribeRequests : WsUnsubscribe(c, r[1], r[2])
    \/ \E c \in Clients : WsDisconnect(c)

SpecManager == Init /\ [][ManagerNext]_vars


-----------------------------------------------------------------------------
(* The engine alone: _execute_intervention applied once to a well-formed    *)
(* state, for a range of commands and targets.                              *)

ExecMoods == {-900, 0, 900}
ExecIds == {1, 2, 3}

ExecAgents ==
    {[k \in {[ty |-> ty, n |-> id] : id \in ExecIds} |->
         AgentRuntime(k.n, [InitialAgentState EXCEPT !.mood = m[k.n]])] :
       ty \in {"int", "str"}, m \in [ExecIds -> ExecMoods]}

ExecStates ==
    {[SimulationState EXCEPT !.is_running = r, !.tick = 5, !.agents = a,
                             !.groups = {ProfileGroup(id) : id \in ExecIds}] :
       r \in BOOLEAN, a \in ExecAgents}

ExecCommands ==
    {CmdPause, CmdResume, CmdSpeedHigh, CmdSetAgent, CmdShiftUp, CmdShiftDown, CmdLongId, CmdTarget,
     <<>>,
     <<W("PAUSE")>>, <<W("Stop")>>, <<W("run")>>, <<W("start")>>,
     <<W("pause"), W("now")>>,
     <<LB, W("Group"), W("A"), RB, W("pause")>>,
     <<LB, W("x"), W("pause")>>,
     <<W("set"), KV("speed", -3 * Scale)>>,
     <<W("Speed"), Num(2, 1)>>,
     <<W("SET"), W("Agent"), Num(2, 1), KV("MOOD", 500), KV("mood", -200), KV("stance", -5 * Scale)>>,
     <<W("set"), W("agent"), Num(7, 1), KV("mood", 500)>>,
     <<W("set"), W("agent"), Num(1, 1), W("happy")>>,
     <<W("set"), W("agent"), Num(3, 1), KV("resources", -5 * Scale), KV("speed", 3 * Scale)>>,
     CmdShiftB, CmdLongIdMood, CmdLongIdAbsent, CmdLongIdShift, CmdFragments,
     GroupPrefix \o CmdSetAgent, GroupPrefix \o CmdShiftUp, GroupPrefix \o CmdLongId,
     GroupPrefix \o CmdUnrecognized, GroupPrefix \o CmdFragments, GroupPrefix,
     CmdSpacedPrefix, GroupPrefix \o CmdSpacedPrefix, GroupPrefix \o <<SP>> \o CmdResume,
     <<W("shift"), W("group"), W("Nobody"), KV("mood", 300)>>,
     <<W("set"), W("agent"), Num(1, 1), KV("mood", -500), W("shift"), W("group"), W("Group"), W("A"),
       KV("mood", 300)>>,
     <<W("inject"), W("event"), W("storm")>>,
     <<W("Survey"), W("all")>>,
     <<W("broadcast"), W("hello"), KV("speed", 2 * Scale)>>,
     CmdUnrecognized}

ExecTargets == {None, Some(1), Some(9)}

ExecInit ==
    /\ mem \in ExecStates
    /\ db = InitialRow
    /\ useOasis = FALSE
    /\ oasis = [env |-> FALSE, tick |-> 0]
    /\ tpc = "boot"
    /\ result = NoResult
    /\ resp = NoResponse
    /\ steps = 0
    /\ ExtInit

Executed(command, target, out) ==
    /\ mem' = out.state
    /\ resp' = Response(resp.n + 1, "execute", IF out.raised THEN 500 ELSE 200, command, target, 0,
                        None, ExecOf(mem, out))

ExecStep ==
    /\ resp.op = "none"
    /\ \E command \in ExecCommands, target \in ExecTargets :
          Executed(command, target, ExecuteIntervention(mem, command, target))
    /\ UNCHANGED <<db, useOasis, oasis, tpc, result, steps>>
    /\ UNCHANGED ext

(* a second call on the state the first one left: the same command again,   *)
(* or a resume                                                              *)
ExecAgain ==
    /\ resp.op = "execute"
    /\ resp.n = 1
    /\ \E command \in {resp.command, CmdResume} :
          Executed(command, resp.target, ExecuteIntervention(mem, command, resp.target))
    /\ UNCHANGED <<db, useOasis, oasis, tpc, result, steps>>
    /\ UNCHANGED ext

ExecNext == ExecStep \/ ExecAgain

SpecExec == ExecInit /\ [][ExecNext]_vars


-----------------------------------------------------------------------------
(* The store alone: save_simulation_state followed by get_simulation_state, *)
(* for a range of states.                                                   *)

TrailEntry(command, target) == [command |-> command, targetAgentId |-> target]

RoundTripHistories ==
    {[logs |-> l, events |-> l, feed |-> l, interventions |-> i, snapshots |-> l, current |-> c] :
        l \in {<<>>, <<"entry">>},
        i \in {<<>>, <<TrailEntry(CmdPause, None)>>},
        c \in {None, Some("snapshot")}}

RoundTripStates ==
    {[s EXCEPT !.selected_agent_id = sel, !.logs = h.logs, !.events = h.events, !.feed = h.feed,
               !.interventions = h.interventions, !.snapshots = h.snapshots,
               !.current_snapshot_id = h.current] :
        s \in {SimulationState}
               \cup {x \in ExecStates : \A k \in DOMAIN x.agents : x.agents[k].state.mood = 0},
        sel \in {None, Some(1)},
        h \in RoundTripHistories}

RoundTripInit ==
    /\ mem \in RoundTripStates
    /\ db = InitialRow
    /\ useOasis = FALSE
    /\ oasis = [env |-> FALSE, tick |-> 0]
    /\ tpc = "loop"
    /\ result = NoResult
    /\ resp = NoResponse
    /\ steps = 0
    /\ ExtInit

(* save_simulation_state(state)                                             *)
RoundTripSave ==
    /\ resp.op = "none"
    /\ db' = SaveSimulationState(mem)
    /\ resp' = Response(1, "saved", 200, <<>>, None, 0, None, NoExec)
    /\ UNCHANGED <<mem, useOasis, oasis, tpc, result, steps>>
    /\ UNCHANGED ext

(* state = get_simulation_state()                                           *)
RoundTripLoad ==
    /\ resp.op = "saved"
    /\ mem' = GetSimulationState(db)
    /\ resp' = Response(2, "loaded", 200, <<>>, None, 0, None, NoExec)
    /\ UNCHANGED <<db, useOasis, oasis, tpc, result, steps>>
    /\ UNCHANGED ext

RoundTripNext == RoundTripSave \/ RoundTripLoad

SpecRoundTrip == RoundTripInit /\ [][RoundTripNext]_vars


-----------------------------------------------------------------------------
(* Properties.  The definitions from here on state what is claimed of the   *)
(* program; the program itself is modelled by the definitions above.        *)

HandlerStep == resp' # resp
Persisted(id) == db.agents_json[StrKey(id)].state
PersistedIds == {k.n : k \in DOMAIN db.agents_json}

(* C1: for every command, target and well-formed state the engine returns   *)
(* without raising, with status applied or recorded_only, the normalized    *)
(* command echoed, a non-empty effects list and strictly ascending          *)
(* affectedAgentIds.                                                        *)
C1_ExecuteTotal ==
    resp.op = "execute" =>
        /\ ~resp.exec.raised
        /\ resp.exec.status \in {"applied", "recorded_only"}
        /\ resp.exec.normalizedCommand = Normalize(resp.command)
        /\ resp.exec.effects # <<>>
        /\ \A i \in 1 .. (Len(resp.exec.affectedAgentIds) - 1) :
              resp.exec.affectedAgentIds[i] < resp.exec.affectedAgentIds[i + 1]

(* C2: a ticker step and an intervention call exclude each other, so when a *)
(* ticker step has persisted, the persisted state holds the tick of that    *)
(* step, also when an intervention was handled meanwhile.                   *)
C2_TickAdvancePersisted ==
    (tpc = "emit_tick" /\ result.set /\ resp.op = "intervention") =>
        db.current_tick = result.tick

(* C3: an intervention that fails partway persists none of its effects,     *)
(* neither at once nor by a later save of the in-memory state: while the    *)
(* failed call is the latest call, the persisted speed stays what it was.   *)
C3_FailedInterventionNotPersisted ==
    [][(resp.op = "intervention" /\ resp.exec.raised /\ ~HandlerStep) => db'.speed = db.speed]_vars

ShiftDeltaOf(command) == IF command = CmdShiftUp THEN 700 ELSE -400

(* C4: group shifts are serialised: each shift call adds its delta exactly  *)
(* once, clamped, to the persisted mood of every member of the group, and   *)
(* no step of the ticker in between changes a persisted mood other than by  *)
(* the fallback ticker's own mood updates.                                  *)
C4_ShiftsSerialised ==
    [][/\ (HandlerStep /\ resp'.op = "intervention" /\ resp'.command \in {CmdShiftUp, CmdShiftDown}) =>
            /\ resp'.exec.status = "applied"
            /\ \A id \in PersistedIds :
                  db'.agents_json[StrKey(id)].state.mood
                      = Max2(-1000, Min2(1000, Persisted(id).mood + ShiftDeltaOf(resp'.command)))
       /\ ~HandlerStep =>
            \/ db'.agents_json = db.agents_json
            \/ db.agents_json = EmptyAgents
            \/ /\ ~useOasis
               /\ tpc = "loop"
               /\ db'.agents_json \in {JsonDumpsAgents(a) : a \in FallbackAgents(db.agents_json)}
      ]_vars

WitnessC4 ==
    /\ resp.n = 2
    /\ resp.command = CmdShiftDown
    /\ tpc = "sync"
    /\ PersistedIds = AgentIds
    /\ \A id \in AgentIds : Persisted(id).mood = 300 /\ Persisted(id).lastAction = "intervened_group_shift"

(* C5: while the persisted isRunning flag is false, no step of the ticker   *)
(* changes the persisted tick.                                              *)
C5_PausedTickerIdle ==
    [][(db.is_running = 0 /\ ~HandlerStep) => db'.current_tick = db.current_tick]_vars

InRange(st) ==
    /\ st.mood >= -1000 /\ st.mood <= 1000
    /\ st.stance >= -1000 /\ st.stance <= 1000
    /\ st.resources >= 0 /\ st.resources <= 10000000

(* C6: every agent's mood and stance lie in [-1, 1] and its resources in    *)
(* [0, 10000], in the in-memory state and in the persisted state.           *)
C6_AgentStateInRange ==
    /\ \A k \in DOMAIN mem.agents : InRange(mem.agents[k].state)
    /\ \A k \in DOMAIN db.agents_json : InRange(db.agents_json[k].state)

WitnessC6 ==
    /\ StrKey(1) \in DOMAIN db.agents_json
    /\ Persisted(1).mood = 1000
    /\ Persisted(1).resources = 10000000
    /\ Persisted(1).lastAction = "intervened"
    /\ resp.op = "patch_agent"

(* C7: speed lies in [0.1, 10.0] after every step, and a call that requests *)
(* a speed above 10 stores 10.0, one that requests a speed below 0.1 stores *)
(* 0.1.                                                                     *)
C7_SpeedClamped ==
    [][/\ db'.speed >= 100 /\ db'.speed <= 10000
       /\ mem'.speed >= 100 /\ mem'.speed <= 10000
       /\ (HandlerStep /\ resp'.speed_req # None) =>
            /\ resp'.speed_req[1] > 10000 => db'.speed = 10000
            /\ resp'.speed_req[1] < 100 => db'.speed = 100
      ]_vars

(* C8: tick is never negative and never decreases from one state to the     *)
(* next, except by an explicit seek (POST /api/simulation/tick, PATCH       *)
(* /api/state with tick).                                                   *)
C8_TickMonotone ==
    [][/\ db'.current_tick >= 0
       /\ \/ db'.current_tick >= db.current_tick
          \/ HandlerStep /\ resp'.op \in {"set_tick", "patch_state_tick"}
      ]_vars

(* C9: a lookup by id finds the agent whether it is stored under the        *)
(* integer key or the string key: PATCH /api/agents/{id}/state on an agent  *)
(* present in the persisted state does not answer 404.                      *)
C9_AgentFoundUnderEitherKey ==
    (resp.op = "patch_agent" /\ resp.agent_id \in PersistedIds) => resp.code = 200

(* C10: status is applied iff a state mutation occurred or an effect other  *)
(* than command_recorded was recorded; command_recorded is there iff no     *)
(* pattern produced an effect; status is recorded_only exactly when the     *)
(* effects are [command_recorded].                                          *)
C10_StatusIffEffect ==
    (resp.op = "execute" /\ ~resp.exec.raised) =>
        LET e == resp.exec
            other == \E i \in 1 .. Len(e.effects) : e.effects[i].tag # "command_recorded"
            recorded == \E i \in 1 .. Len(e.effects) : e.effects[i].tag = "command_recorded"
        IN  /\ e.status \in {"applied", "recorded_only"}
            /\ e.status = "applied" <=> (e.changed \/ e.mutated \/ other)
            /\ recorded <=> ~other
            /\ e.status = "recorded_only" <=> e.effects = <<Tag("command_recorded")>>

WitnessC10 ==
    /\ resp.op = "execute"
    /\ resp.exec.status = "applied"
    /\ ~resp.exec.changed
    /\ resp.exec.effects = <<Tag("event_injected")>>

-----------------------------------------------------------------------------
(* Properties of the engine's patterns, stated over a call's state before   *)
(* and after and the summary it returns                                     *)

HasEffect(e, tag) == \E i \in 1 .. Len(e.effects) : e.effects[i].tag = tag

(* the place of an effect in the order of the patterns                      *)
Rank(tag) ==
    CASE tag \in {"simulation_paused", "simulation_resumed", "speed_set"} -> 1
      [] tag = "agent_state_set" -> 2
      [] tag = "target_agent_state_set" -> 3
      [] tag = "group_mood_shift" -> 4
      [] tag = "event_injected" -> 5
      [] tag = "survey_triggered" -> 6
      [] tag = "broadcast_sent" -> 7
      [] OTHER -> 8

Exists(state, id) == AgentKeyRef(state, id) # NoKey
StateOf(state, id) == state.agents[AgentKeyRef(state, id)].state
Fragments(q) == {k \in AssignKeys : \E i \in 1 .. Len(q) : IsKey(q[i], k)}
GroupMembers(state, name) ==
    {id \in NormalizeAgentIdList(state) : LowerSeq(ProfileGroup(id)) = LowerSeq(name)}

(* what a call on the normalized command n with target t must record        *)
Expected(state, n, t) ==
    (IF IsCommand(n, {"pause", "stop"}) THEN {"simulation_paused"} ELSE {})
    \cup (IF IsCommand(n, {"resume", "run", "start"}) THEN {"simulation_resumed"} ELSE {})
    \cup (IF ~IsCommand(n, {"pause", "stop", "resume", "run", "start"}) /\ SpeedMatches(n)
          THEN {"speed_set"} ELSE {})
    \cup (IF SetAgentMatch(n) /\ Fragments(From(n, 4)) # {} /\ Exists(state, n[3].v)
          THEN {"agent_state_set"} ELSE {})
    \cup (IF t # None /\ ~SetAgentMatch(n) /\ Fragments(n) # {} /\ Exists(state, t[1])
          THEN {"target_agent_state_set"} ELSE {})
    \cup (IF ShiftMatches(n) /\ GroupMembers(state, ShiftGroupName(n)) # {}
          THEN {"group_mood_shift"} ELSE {})
    \cup {RecordedOnly(n)[i].tag : i \in 1 .. Len(RecordedOnly(n))}

(* C11: every pattern is tried on every command: each effect a pattern of   *)
(* the command must record is in the effects list, the list is in the order *)
(* of the patterns, and the mutations of run control, speed and group shift *)
(* are in the resulting state.                                              *)
C11_AllPatternsInOrder ==
    resp.op = "execute" =>
        /\ \A tag \in Expected(mem, Normalize(resp.command), resp.target) : HasEffect(resp.exec, tag)
        /\ \A i \in 1 .. (Len(resp.exec.effects) - 1) :
              Rank(resp.exec.effects[i].tag) < Rank(resp.exec.effects[i + 1].tag)
        /\ HasEffect(resp.exec, "simulation_paused") => ~mem.is_running
        /\ HasEffect(resp.exec, "simulation_resumed") => mem.is_running
        /\ HasEffect(resp.exec, "speed_set") =>
              mem.speed = ClampSpeed(SpeedValue(Normalize(resp.command)))
        /\ ShiftMatches(Normalize(resp.command)) =>
              \A id \in GroupMembers(mem, ShiftGroupName(Normalize(resp.command))) :
                  StateOf(mem, id).lastAction = "intervened_group_shift"

EngineStep == resp' # resp /\ resp'.op = "execute"

(* the value of the last fragment of key k in q, clamped to the key's range *)
FragmentValue(q, k) ==
    q[CHOOSE i \in 1 .. Len(q) : IsKey(q[i], k) /\ \A j \in (i + 1) .. Len(q) : ~IsKey(q[j], k)].v
Clamped(k, v) ==
    IF k = "resources" THEN Max2(0, Min2(10000000, v)) ELSE Max2(-1000, Min2(1000, v))
Written(st, q) == \A k \in Fragments(q) : st[k] = Clamped(k, FragmentValue(q, k))
InList(id, q) == \E i \in 1 .. Len(q) : q[i] = id

TargetApplies(state, n, t) ==
    t # None /\ ~SetAgentMatch(n) /\ Fragments(n) # {} /\ Exists(state, t[1])
ShiftReaches(state, n, id) ==
    ShiftMatches(n) /\ id \in GroupMembers(state, ShiftGroupName(n))

TargetWritten(before, after, n, t, e) ==
    /\ HasEffect(e, "target_agent_state_set") <=> TargetApplies(before, n, t)
    /\ TargetApplies(before, n, t) =>
          /\ InList(t[1], e.affectedAgentIds)
          /\ Written(StateOf(after, t[1]), n)
          /\ StateOf(after, t[1]).lastAction = "intervened"
          /\ \A k \in AssignKeys \ Fragments(n) : StateOf(after, t[1])[k] = StateOf(before, t[1])[k]
    /\ (t # None /\ SetAgentMatch(n) /\ Exists(before, t[1]) /\ n[3].v # t[1]
           /\ ~ShiftReaches(before, n, t[1])) =>
          StateOf(after, t[1]) = StateOf(before, t[1])

TargetWrittenThenShifted(before, after, n, t, e) ==
    /\ HasEffect(e, "target_agent_state_set") <=> TargetApplies(before, n, t)
    /\ (TargetApplies(before, n, t) /\ ~ShiftReaches(before, n, t[1])) =>
          /\ InList(t[1], e.affectedAgentIds)
          /\ Written(StateOf(after, t[1]), n)
          /\ StateOf(after, t[1]).lastAction = "intervened"
          /\ \A k \in AssignKeys \ Fragments(n) : StateOf(after, t[1])[k] = StateOf(before, t[1])[k]
    /\ (TargetApplies(before, n, t) /\ ShiftReaches(before, n, t[1])) =>
          /\ InList(t[1], e.affectedAgentIds)
          /\ Written([StateOf(after, t[1]) EXCEPT !.mood = Clamped("mood", FragmentValue(n, "mood"))], n)
          /\ StateOf(after, t[1]).mood
                = Clamped("mood", Clamped("mood", FragmentValue(n, "mood")) + FragmentValue(n, "mood"))
          /\ StateOf(after, t[1]).lastAction = "intervened_group_shift"
    /\ (t # None /\ SetAgentMatch(n) /\ Exists(before, t[1]) /\ n[3].v # t[1]
           /\ ~ShiftReaches(before, n, t[1])) =>
          StateOf(after, t[1]) = StateOf(before, t[1])

AgentEffects == {"agent_state_set", "target_agent_state_set", "group_mood_shift"}

NamesAbsentAgent(state, n) == SetAgentMatch(n) /\ ~Exists(state, n[3].v)
AbsentTarget(state, t) == t # None /\ ~Exists(state, t[1])
NamesEmptyGroup(state, n) == ShiftMatches(n) /\ GroupMembers(state, ShiftGroupName(n)) = {}

AbsentIgnored(before, after, n, t, e) ==
    /\ NamesAbsentAgent(before, n) =>
          ~e.raised /\ ~HasEffect(e, "agent_state_set") /\ ~InList(n[3].v, e.affectedAgentIds)
    /\ AbsentTarget(before, t) =>
          ~e.raised /\ ~HasEffect(e, "target_agent_state_set") /\ ~InList(t[1], e.affectedAgentIds)
    /\ NamesEmptyGroup(before, n) =>
          ~e.raised /\ ~HasEffect(e, "group_mood_shift")
    /\ ((NamesAbsentAgent(before, n) \/ AbsentTarget(before, t) \/ NamesEmptyGroup(before, n))
           /\ Expected(before, n, t) \cap AgentEffects = {}) =>
          /\ after.agents = before.agents
          /\ e.affectedAgentIds = <<>>
          /\ \A tag \in AgentEffects : ~HasEffect(e, tag)

(* C13: a command that names an agent that does not exist (in "set agent N" *)
(* or as the target) or a group without members does not raise, records no  *)
(* effect for that reference, does not list the id, and, when no other      *)
(* reference of the command applies, changes no agent's state.              *)
C13_AbsentReferenceIgnored ==
    [][EngineStep => AbsentIgnored(mem, mem', Normalize(resp'.command), resp'.target, resp'.exec)]_vars

(* a command of the form "set agent N key=value ..." and nothing else       *)
AssignmentsOnly(q) ==
    /\ q # <<>>
    /\ \A i \in 1 .. Len(q) : \E k \in AssignKeys : IsKey(q[i], k)
SetAgentForm(n) == SetAgentMatch(n) /\ AssignmentsOnly(From(n, 4))

AgentSet(before, after, n, e) ==
    /\ ~e.raised
    /\ Written(StateOf(after, n[3].v), From(n, 4))
    /\ \A k \in AssignKeys \ Fragments(From(n, 4)) :
          StateOf(after, n[3].v)[k] = StateOf(before, n[3].v)[k]
    /\ StateOf(after, n[3].v).lastAction = "intervened"
    /\ HasEffect(e, "agent_state_set")
    /\ e.affectedAgentIds = <<n[3].v>>

(* C14: on a state containing agent N, "set agent N <assignments>" writes   *)
(* each assigned key clamped to its range, leaves the other keys as they    *)
(* were, sets lastAction to "intervened", records agent_state_set and       *)
(* returns affectedAgentIds == [N].                                         *)
C14_SetAgentWrites ==
    [][(EngineStep /\ SetAgentForm(Normalize(resp'.command))
           /\ Exists(mem, Normalize(resp'.command)[3].v)) =>
          AgentSet(mem, mem', Normalize(resp'.command), resp'.exec)]_vars

(* a command of the form "shift group <name> mood=<d>" and nothing else     *)
ShiftForm(n) == ShiftMatches(n) /\ ShiftStart(n) = 1 /\ ShiftMoodPos(n) = Len(n)

Ascending(q) == \A i \in 1 .. (Len(q) - 1) : q[i] < q[i + 1]

GroupShifted(before, after, n, e) ==
    /\ \A id \in GroupMembers(before, ShiftGroupName(n)) :
          /\ StateOf(after, id).mood = Clamped("mood", StateOf(before, id).mood + ShiftDelta(n))
          /\ StateOf(after, id).lastAction = "intervened_group_shift"
          /\ InList(id, e.affectedAgentIds)
    /\ \A id \in NormalizeAgentIdList(before) \ GroupMembers(before, ShiftGroupName(n)) :
          StateOf(after, id) = StateOf(before, id)
    /\ Ascending(e.affectedAgentIds)

(* C15 as stated: "shift group <name> mood=<d>" adds d, clamped, to the     *)
(* mood of every agent of the group (names compared case-insensitively),    *)
(* sets their lastAction to "intervened_group_shift", changes no agent      *)
(* outside the group and lists the shifted ids in ascending order.          *)
C15_GroupShiftAsStated ==
    [][(EngineStep /\ ShiftForm(Normalize(resp'.command))) =>
          GroupShifted(mem, mem', Normalize(resp'.command), resp'.exec)]_vars

(* C15 amended: the same, for a call without a targetAgentId.               *)
C15_GroupShift ==
    [][(EngineStep /\ ShiftForm(Normalize(resp'.command)) /\ resp'.target = None) =>
          /\ GroupShifted(mem, mem', Normalize(resp'.command), resp'.exec)
          /\ resp'.exec.affectedAgentIds
                = SortedSeq(GroupMembers(mem, ShiftGroupName(Normalize(resp'.command))))]_vars

WitnessC15 ==
    /\ resp.op = "execute"
    /\ resp.n = 1
    /\ resp.command = CmdShiftDown
    /\ resp.target = None
    /\ resp.exec.affectedAgentIds = <<1, 2>>
    /\ StateOf(mem, 1).mood = MoodMin
    /\ StateOf(mem, 2).mood = 500
    /\ StateOf(mem, 2).lastAction = "intervened_group_shift"
    /\ StateOf(mem, 3).lastAction = InitialAgentState.lastAction

(* no pattern of the engine matches n, and no fragment of n applies to t    *)
MatchesNothing(state, n, t) ==
    /\ ~IsCommand(n, {"pause", "stop", "resume", "run", "start"})
    /\ ~SpeedMatches(n)
    /\ ~SetAgentMatch(n)
    /\ ~TargetApplies(state, n, t)
    /\ ~ShiftMatches(n)
    /\ RecordedOnly(n) = <<>>

OnlyRecorded(before, after, e) ==
    /\ ~e.raised
    /\ e.status = "recorded_only"
    /\ e.effects = <<Tag("command_recorded")>>
    /\ e.affectedAgentIds = <<>>
    /\ after.is_running = before.is_running
    /\ after.speed = before.speed
    /\ after.tick = before.tick
    /\ after.agents = before.agents

(* C16: a command that matches no pattern and has no fragment applicable to *)
(* a supplied target returns "recorded_only" with effects                   *)
(* ["command_recorded"] and no affected agent, and leaves isRunning, speed, *)
(* tick and every agent's state as they were.                               *)
C16_RecordedOnly ==
    [][(EngineStep /\ MatchesNothing(mem, Normalize(resp'.command), resp'.target)) =>
          OnlyRecorded(mem, mem', resp'.exec)]_vars

WitnessC16 ==
    /\ resp.op = "execute"
    /\ resp.n = 1
    /\ resp.command = GroupPrefix \o CmdUnrecognized
    /\ resp.target = Some(1)
    /\ resp.exec.status = "recorded_only"
    /\ resp.exec.effects = <<Tag("command_recorded")>>
    /\ ~resp.exec.mutated

(* an assignment command: "set agent N key=value ...", or key=value         *)
(* fragments with a target, without a group shift                           *)
DirectAssignment(n, t) ==
    /\ ~ShiftMatches(n)
    /\ \/ SetAgentMatch(n) /\ Fragments(From(n, 4)) # {}
       \/ ~SetAgentMatch(n) /\ t # None /\ Fragments(n) # {}

SameSummary(e, f) ==
    /\ e.raised = f.raised
    /\ e.status = f.status
    /\ e.normalizedCommand = f.normalizedCommand
    /\ e.effects = f.effects
    /\ e.affectedAgentIds = f.affectedAgentIds

SecondRun == resp.op = "execute" /\ resp.n = 1 /\ resp'.n = 2 /\ resp'.command = resp.command

SameOutcome(after, e, out) ==
    /\ after = out.state
    /\ e.raised = out.raised
    /\ e.status = out.status
    /\ e.normalizedCommand = out.normalizedCommand
    /\ e.effects = out.effects
    /\ e.affectedAgentIds = out.affectedAgentIds

BeginsWithBracket(c) == Len(c) >= 1 /\ c[1].t = "lb"

(* C18 as stated: for a command c that does not begin with "[", executing   *)
(* "[...] " + c gives the state and the summary of executing c.             *)
C18_PrefixIgnoredAsStated ==
    [][(EngineStep /\ HasPrefix(resp'.command) /\ ~BeginsWithBracket(AfterPrefix(resp'.command))) =>
          SameOutcome(mem', resp'.exec,
                      ExecuteIntervention(mem, AfterPrefix(resp'.command), resp'.target))]_vars

(* C18 amended: the same for a command c that, without the white space at   *)
(* its ends, does not begin with "[".                                       *)
C18_PrefixIgnored ==
    [][(EngineStep /\ HasPrefix(resp'.command)
           /\ ~BeginsWithBracket(Strip(AfterPrefix(resp'.command)))) =>
          SameOutcome(mem', resp'.exec,
                      ExecuteIntervention(mem, AfterPrefix(resp'.command), resp'.target))]_vars

WitnessC18 ==
    /\ resp.op = "execute"
    /\ resp.n = 1
    /\ resp.command = GroupPrefix \o CmdSetAgent
    /\ resp.exec.normalizedCommand = CmdSetAgent
    /\ HasEffect(resp.exec, "agent_state_set")
    /\ StateOf(mem, 1).mood = MoodMax
    /\ StateOf(mem, 1).resources = ResourcesMax

RunControlled(before, after, n, e) ==
    /\ IsCommand(n, {"pause", "stop"}) =>
          /\ ~e.raised
          /\ ~after.is_running
          /\ HasEffect(e, "simulation_paused")
          /\ e.status = "applied"
    /\ IsCommand(n, {"resume", "run", "start"}) =>
          /\ ~e.raised
          /\ after.is_running
          /\ HasEffect(e, "simulation_resumed")
          /\ e.status = "applied"

PauseThenResume ==
    /\ resp.op = "execute"
    /\ IsCommand(Normalize(resp.command), {"pause", "stop"})
    /\ ~mem.is_running
    /\ resp'.n = resp.n + 1
    /\ IsCommand(Normalize(resp'.command), {"resume", "run", "start"})

(* C19: a normalized command equal, in any case, to "pause" or "stop" sets  *)
(* isRunning to false with effect simulation_paused and status "applied";   *)
(* one equal to "resume", "run" or "start" sets it to true with effect      *)
(* simulation_resumed; a resume executed after a pause ends with isRunning  *)
(* true.                                                                    *)
C19_PauseResume ==
    [][/\ EngineStep => RunControlled(mem, mem', Normalize(resp'.command), resp'.exec)
       /\ PauseThenResume => mem'.is_running]_vars

WitnessC19 ==
    /\ resp.op = "execute"
    /\ resp.n = 2
    /\ resp.command = CmdResume
    /\ mem.is_running
    /\ resp.exec.status = "applied"
    /\ resp.exec.effects = <<Tag("simulation_resumed")>>

Frame(before, after, e) ==
    /\ after.tick = before.tick
    /\ after.groups = before.groups
    /\ after.selected_agent_id = before.selected_agent_id
    /\ after.config = before.config
    /\ after.interventions = before.interventions
    /\ DOMAIN after.agents = DOMAIN before.agents
    /\ \A k \in DOMAIN before.agents :
          /\ after.agents[k].profile = before.agents[k].profile
          /\ DOMAIN after.agents[k].state = DOMAIN before.agents[k].state
          /\ ~InList(k.n, e.affectedAgentIds) => after.agents[k].state = before.agents[k].state

(* C20: a call of the engine changes nothing but isRunning, speed and the   *)
(* mood, stance, resources and lastAction of the agents it lists in         *)
(* affectedAgentIds: tick, groups, selectedAgentId, config, every profile   *)
(* and the state of every agent not listed are as before the call.          *)
C20_EngineFrame ==
    [][EngineStep => Frame(mem, mem', resp'.exec)]_vars

WitnessC20 ==
    /\ resp.op = "execute"
    /\ resp.n = 1
    /\ resp.command = CmdShiftB
    /\ resp.target = Some(1)
    /\ resp.exec.mutated
    /\ resp.exec.affectedAgentIds = <<1, 3>>
    /\ StateOf(mem, 1).lastAction = "intervened"
    /\ StateOf(mem, 2).lastAction = InitialAgentState.lastAction
    /\ StateOf(mem, 3).lastAction = "intervened_group_shift"
    /\ mem.tick = 5

-----------------------------------------------------------------------------
(* Properties of the store, the snapshots and the interventions trail       *)

Loaded == resp.op = "saved" /\ resp'.op = "loaded"

(* C24: a state saved by save_simulation_state and loaded back by           *)
(* get_simulation_state is the state that was saved: tick, isRunning,       *)
(* speed, selectedAgentId, agents, groups, the histories and                *)
(* currentSnapshotId are the same.                                          *)
C24_SaveLoadRoundTrip ==
    [][Loaded =>
          /\ mem'.tick = mem.tick
          /\ mem'.is_running = mem.is_running
          /\ mem'.speed = mem.speed
          /\ mem'.selected_agent_id = mem.selected_agent_id
          /\ mem'.agents = mem.agents
          /\ mem'.groups = mem.groups
          /\ mem'.logs = mem.logs
          /\ mem'.events = mem.events
          /\ mem'.feed = mem.feed
          /\ mem'.interventions = mem.interventions
          /\ mem'.snapshots = mem.snapshots
          /\ mem'.current_snapshot_id = mem.current_snapshot_id]_vars

(* a tick step has started and has not yet saved the state and emitted the *)
(* tick update                                                              *)
StepInFlight == tpc \in {"step", "sync", "emit_tick"}

(* C23: the cancellation of the ticker at shutdown ends it between two      *)
(* steps: a step in flight first runs to its end, its state saved and its   *)
(* tick update emitted, and once the ticker has ended no step starts and    *)
(* nothing more is saved by it.                                             *)
C23_ShutdownBetweenSteps ==
    [][/\ (tpc' = "stopped" /\ tpc # "stopped") => ~StepInFlight
       /\ tpc = "stopped" => (tpc' = "stopped" /\ steps' = steps /\ db' = db)]_vars

(* the actions recorded in the last 60 seconds                              *)
InWindow(r) ==
    Cardinality({i \in 1 .. Len(r.action_timestamps) :
                    r.now - r.action_timestamps[i] <= RateWindow})

(* C29: after any sequence of steps the number of actions recorded in the   *)
(* rolling 60-second window is at most llm_max_actions_per_minute.          *)
C29_WindowWithinLimit == InWindow(rate) <= LlmMaxActionsPerMinute

(* the feed posts that the sync table maps OASIS post id to                 *)
FeedPostsOf(t, id) == {row \in t.oasis_post_sync : row.oasis_post_id = id}

(* the sync pass for OASIS post id has just ended                           *)
SyncPass(id) ==
    /\ Len(tables'.log_line) = Len(tables.log_line) + 1
    /\ tables'.log_line[Len(tables'.log_line)].post = id

PostCreatedSent == {d \in net' : d.message.type = "post_created"}

(* C30: an OASIS post id is synced at most once.  The first sync pass for   *)
(* it inserts one feed post and one row of the sync table, and only that    *)
(* pass emits post_created, for that post; every later pass for the same id *)
(* inserts nothing and emits no post_created.                               *)
C30_SyncedAtMostOnce ==
    [][\A id \in 1 .. MaxPosts : SyncPass(id) =>
          IF FeedPostsOf(tables, id) = {}
          THEN /\ Len(tables'.post) = Len(tables.post) + 1
               /\ FeedPostsOf(tables', id) =
                     {[oasis_post_id |-> id, feed_post_id |-> Len(tables'.post)]}
               /\ tables'.log_line[Len(tables'.log_line)].text = "synced"
               /\ \A d \in PostCreatedSent : d.message.post = <<"oasis_", id>>
               /\ \A c \in ws.active_connections : \E d \in PostCreatedSent : d.to = c
          ELSE /\ tables'.post = tables.post
               /\ tables'.oasis_post_sync = tables.oasis_post_sync
               /\ tables'.log_line[Len(tables'.log_line)].text = "skipped"
               /\ PostCreatedSent = {}]_vars

(* a post has been synced and a later pass for it has been skipped, another *)
(* post has been synced after it                                            *)
WitnessC30 ==
    /\ Len(tables.post) = 2
    /\ Cardinality(tables.oasis_post_sync) = 2
    /\ \E i \in 1 .. Len(tables.log_line) : tables.log_line[i].text = "skipped"
    /\ \E d \in net : d.message.type = "post_created" /\ d.sent

(* a POST /api/snapshots has just been answered                             *)
SnapshotAnswered == resp'.n = resp.n + 1 /\ resp'.op = "create_snapshot"

IsPrefix(s1, s2) == Len(s1) <= Len(s2) /\ SubSeq(s2, 1, Len(s1)) = s1

(* C25: POST /api/snapshots succeeds and stores one more snapshot, holding  *)
(* the stored state with finalTick equal to its tick; no operation changes  *)
(* or removes a snapshot already stored.                                    *)
C25_SnapshotStoredOnce ==
    [][/\ SnapshotAnswered =>
            /\ resp'.code = 200
            /\ Len(tables'.simulation_snapshot) = Len(tables.simulation_snapshot) + 1
            /\ tables'.simulation_snapshot[Len(tables'.simulation_snapshot)].final_tick
                  = GetSimulationState(db).tick
       /\ IsPrefix(tables.simulation_snapshot, tables'.simulation_snapshot)]_vars

(* an intervention call has just returned its execution                     *)
InterventionReturned ==
    resp'.n = resp.n + 1 /\ resp'.op = "intervention" /\ resp'.code = 200

LastOf(trail, n) ==
    IF Len(trail) > n THEN SubSeq(trail, Len(trail) - n + 1, Len(trail)) ELSE trail

(* C26: each intervention call appends its entry to the trail of the        *)
(* process and keeps the last 500: after n calls the trail holds the last   *)
(* min(n, 500) entries issued, oldest first.                                *)
C26_TrailKeepsLastEntries ==
    [][InterventionReturned =>
          mem'.interventions =
              LastOf(Append(mem.interventions,
                            [command |-> resp'.command, targetAgentId |-> resp'.target]),
                     TrailCap)]_vars

-----------------------------------------------------------------------------
(* Properties of the connection manager                                     *)

(* the manager that connect and subscribe alone make of the connections     *)
(* and subscription records of w                                            *)
RECURSIVE Registered(_, _, _)
Registered(w, made, clients) ==
    IF clients = {} THEN made
    ELSE LET c == CHOOSE x \in clients : TRUE
         IN  Registered(w,
                Subscribe(Connect(made, c), c, w.subscriptions[c].event_types,
                          w.subscriptions[c].agent_ids),
                clients \ {c})

SameRegistrations(w) == Registered(w, WebSocketManager, w.active_connections)

(* C27: the clients a broadcast with event_type e goes to are determined by *)
(* the current connections and subscription records: they are those of any  *)
(* manager with the same connections and records, whatever its history.     *)
C27_RecipientsFromRegistrations ==
    \A e \in EventTypes :
        BroadcastTargets(ws, e) \cap ws.active_connections =
            BroadcastTargets(SameRegistrations(ws), e)
               \cap SameRegistrations(ws).active_connections

InIndex(index, key, c) == key \in DOMAIN index /\ c \in index[key]

IndexAgrees(w) ==
    /\ \A c \in Clients : \A e \in EventTypes :
          InIndex(w.event_subscribers, e, c)
              <=> (c \in DOMAIN w.subscriptions /\ e \in w.subscriptions[c].event_types)
    /\ \A c \in Clients : \A a \in WatchedAgents :
          InIndex(w.agent_subscribers, a, c)
              <=> (c \in DOMAIN w.subscriptions /\ a \in w.subscriptions[c].agent_ids)
    /\ \A c \in Clients \ w.active_connections :
          /\ c \notin DOMAIN w.subscriptions
          /\ \A e \in DOMAIN w.event_subscribers : c \notin w.event_subscribers[e]
          /\ \A a \in DOMAIN w.agent_subscribers : c \notin w.agent_subscribers[a]

(* C28: after every operation of the manager a client is in the subscriber  *)
(* set of an event type (of an agent) exactly when its subscription record  *)
(* holds that type (that agent); a client that is not connected is in no    *)
(* subscriber set, and every message delivered goes to a connected client.  *)
C28_IndexAgreesWithRecords ==
    [][IndexAgrees(ws') /\ (\A d \in net' \ net : d.sent => d.to \in ws.active_connections)]_vars

(* a client was sent the tick update and has since been disconnected, the   *)
(* other one is still subscribed                                            *)
WitnessC28 ==
    \E c \in Clients : \E other \in Clients :
        /\ \E d \in net : d.to = c /\ d.sent
        /\ c \notin ws.active_connections
        /\ InIndex(ws.event_subscribers, "tick", other)
        /\ InIndex(ws.agent_subscribers, 1, other)

-----------------------------------------------------------------------------
(* Properties of the notifications of an intervention call                  *)

(* the state of agent id among the agents the call saved                    *)
PostState(h, id) == h.post[CHOOSE k \in DOMAIN h.post : k.n = id].state

(* what a send_json of the handler has just delivered                       *)
Delivered == IF hpc.pc # "idle" THEN {d \in net' \ net : d.sent} ELSE {}

Affected(h, id) ==
    \E i \in 1 .. Len(h.execution.affectedAgentIds) : h.execution.affectedAgentIds[i] = id

(* the call has saved the state and is about to send its first notification *)
Notifying == hpc.pc = "idle" /\ hpc'.pc # "idle"

(* C21: every agent_update an intervention call sends is for an affected    *)
(* agent and carries the state the intervention left that agent in; the     *)
(* call starts to notify with the state it mutated stored, nothing sent.    *)
C21_UpdatesCarryPostState ==
    [][/\ \A d \in Delivered :
            d.message.type = "agent_update" =>
                /\ Affected(hpc, d.message.agent_id)
                /\ d.state = PostState(hpc, d.message.agent_id)
       /\ Notifying => db'.agents_json = JsonDumpsAgents(hpc'.post) /\ net' = net]_vars

(* what holds of the updates whatever runs between two sends                *)
UpdatesSentAfterSave ==
    [][/\ \A d \in Delivered :
            d.message.type = "agent_update" => Affected(hpc, d.message.agent_id)
       /\ Notifying => db'.agents_json = JsonDumpsAgents(hpc'.post) /\ net' = net]_vars

(* the handler's send to client c raises                                    *)
HandlerSendFails(c) ==
    /\ hpc.pc # "idle"
    /\ hpc' # hpc
    /\ c \in hpc.queue \cap ws.active_connections
    /\ c \notin ws'.active_connections

(* the call ends: both records are stored and the execution is returned     *)
Returns ==
    /\ hpc' = NoCall
    /\ resp' = Response(resp.n + 1, "intervention", 200, hpc.command, hpc.target, 0, None,
                        hpc.execution)
    /\ Len(tables'.intervention_record) > 0
    /\ tables'.intervention_record[Len(tables'.intervention_record)] =
          [command |-> hpc.command, target_agent_id |-> hpc.target]
    /\ Len(tables'.timeline_event) = Len(tables'.intervention_record)
    /\ tables'.timeline_event[Len(tables'.timeline_event)].command = hpc.command

(* after the send to c the broadcast goes on with the clients left, or the  *)
(* handler goes on to its next notification or to its end                   *)
GoesOn(c) ==
    IF Reaches(ws', hpc.queue \ {c})
    THEN /\ hpc'.pc = hpc.pc
         /\ hpc'.message = hpc.message
         /\ hpc'.queue = hpc.queue \ {c}
    ELSE \/ hpc'.pc \in {"agent", "event"} /\ hpc'.pc # hpc.pc
         \/ hpc'.pc = "agent" /\ hpc'.message # hpc.message
         \/ Returns

(* C22: a send of the intervention handler that raises disconnects that     *)
(* client and nothing else: the clients still to be reached stay targets    *)
(* of the same message, the handler goes on, and when it ends it has stored *)
(* the intervention record and the timeline event and returns the           *)
(* execution result.                                                        *)
C22_FailedSendDoesNotAbort ==
    [][/\ \A c \in Clients : HandlerSendFails(c) =>
            /\ c \notin DOMAIN ws'.subscriptions
            /\ Delivery(c, hpc.message, hpc.state, FALSE) \in net'
            /\ GoesOn(c)
       /\ (hpc.pc # "idle" /\ hpc'.pc = "idle") => Returns]_vars

(* a call has returned whose event_created failed for one client and        *)
(* reached the other                                                        *)
WitnessC22 ==
    /\ hpc.pc = "idle"
    /\ resp.op = "intervention" /\ resp.code = 200
    /\ Len(tables.intervention_record) = 1 /\ Len(tables.timeline_event) = 1
    /\ \E failed \in net : \E reached \in net :
          /\ ~failed.sent /\ reached.sent
          /\ failed.message.type = "event_created" /\ reached.message = failed.message
          /\ failed.to \notin ws.active_connections
          /\ reached.to \in ws.active_connections

=============================================================================
